---- MODULE Spec2Model ----
(***************************************************************************)
(* Tool invocation and recording subsystem of XAgent                       *)
(* (XAgent/tool_call_handle.py): ToolServerInterface.execute_command_client*)
(* and FunctionHandler.handle_tool_call, with the response-envelope        *)
(* normalizer unwrap_tool_response.                                        *)
(*                                                                         *)
(* Python values are tagged records [t |-> <type>, v |-> <payload>]; the   *)
(* tag sorts before the payload, so two values of different types are      *)
(* told apart by the tag alone.                                            *)
(***************************************************************************)
EXTENDS Integers, Sequences, FiniteSets, TLC

(***************************************************************************)
(* Bounds of the model.                                                    *)
(***************************************************************************)
\* number of handle_tool_call invocations in one behaviour
MaxInvocations == 2
\* number of tool-discovery calls in one behaviour
MaxDiscoveryCalls == 3
\* nesting depth and length of the lists given to unwrap_tool_response
MaxDepth == 2
MaxLen == 2
\* number of ToolServerInterface operations in one behaviour of the session
MaxSessionOps == 3
\* the most pages a WebEnv_search_and_browse result holds
MaxPages == 3
\* the most files the file_list of an interaction names
MaxUploads == 2
\* the most chatcompletion_request calls of a behaviour
MaxCompletions == 2
\* the most entries of a retriever cache file, and of tools_json
MaxTools == 2
\* the most build_tool_embeddings calls of a behaviour
MaxBuilds == 2

(***************************************************************************)
(* Python / JSON values.                                                   *)
(***************************************************************************)
None == [t |-> "none"]
Str(s) == [t |-> "str", v |-> s]
Dict(f) == [t |-> "dict", v |-> f]
List(s) == [t |-> "list", v |-> s]
\* an int keeps its payload in a field of its own, apart from the strings
IntV(n) == [t |-> "int", i |-> n]
BoolV(b) == [t |-> "bool", b |-> b]

IsDict(x) == x.t = "dict"
IsStr(x) == x.t = "str"
IsList(x) == x.t = "list"

\* key in obj, for a dict obj
HasKey(obj, k) == IsDict(obj) /\ k \in DOMAIN obj.v

\* the value raised by an operation that throws (KeyError, TypeError, ...)
Raise == [t |-> "raise"]
IsRaise(x) == x.t = "raise"

\* obj[k]: KeyError on a dict without the key, TypeError on a non-dict
\* subscripted by a string
Subscript(obj, k) == IF HasKey(obj, k) THEN obj.v[k] ELSE Raise

\* str(name).endswith('.png'), by table over the names of the model
PngNames == {"plot.png", "uuid4hex.png", "/tmp/plot.png"}
EndsWithPng(name) == name \in PngNames
\* name + '.png'
AppendPng(name) == name \o ".png"

\* a variant of is_wrapped_response that accepts any 'type'
is_wrapped_response_loose(obj) ==
    /\ "type" \in DOMAIN obj.v
    /\ "data" \in DOMAIN obj.v
is_wrapped_response(obj) ==
    /\ "type" \in DOMAIN obj.v
    /\ obj.v["type"] \in {Str("simple"), Str("composite"), Str("binary")}
    /\ "data" \in DOMAIN obj.v

\* the 'binary' case: the descriptor returned, or Raise
UnwrapBinary(obj) ==
    LET name == IF "name" \in DOMAIN obj.v THEN obj.v["name"] ELSE Str("uuid4hex")
    IN  IF "media_type" \notin DOMAIN obj.v THEN Raise
        ELSE IF ~IsStr(name) THEN Raise
        ELSE LET fname == IF obj.v["media_type"] = Str("image/png") /\ ~EndsWithPng(name.v)
                          THEN Str(AppendPng(name.v)) ELSE name
             IN  IF ~IsStr(obj.v["data"]) THEN Raise
                 ELSE Dict([media_type |-> obj.v["media_type"], file_name |-> fname])

\* the characters of a string, by table over the strings the model uses as
\* the data of a composite envelope (any other string of the model is one
\* character long)
Chars(s) == CASE s = "" -> <<>>
              [] s = "ok" -> <<Str("o"), Str("k")>>
              [] OTHER -> <<Str(s)>>

\* the keys of a dict in iteration order (the model's dicts keep no order: a
\* fixed one is taken)
KeyList(f) ==
    LET n == Cardinality(DOMAIN f)
        s == CHOOSE q \in [1..n -> DOMAIN f] : {q[i] : i \in 1..n} = DOMAIN f
    IN  [i \in 1..n |-> Str(s[i])]

\* the elements "for o in data" iterates over: List of them, or Raise when
\* data is not iterable
Iterate(data) ==
    CASE IsList(data) -> data
      [] IsStr(data) -> List(Chars(data.v))
      [] IsDict(data) -> List(KeyList(data.v))
      [] OTHER -> Raise

RECURSIVE unwrap_tool_response(_)
\* [unwrap_tool_response(o) for o in s], as List, or Raise when an element
\* raises
RECURSIVE UnwrapEach(_)
\* a variant of UnwrapEach that gives the elements in reverse order
UnwrapEach_reversed(s) ==
    IF s = <<>> THEN List(<<>>)
    ELSE LET h == unwrap_tool_response(Head(s))
             r == UnwrapEach(Tail(s))
         IN  IF IsRaise(h) \/ IsRaise(r) THEN Raise ELSE List(r.v \o <<h>>)
UnwrapEach(s) ==
    IF s = <<>> THEN List(<<>>)
    ELSE LET h == unwrap_tool_response(Head(s))
             r == UnwrapEach(Tail(s))
         IN  IF IsRaise(h) \/ IsRaise(r) THEN Raise ELSE List(<<h>> \o r.v)

unwrap_tool_response(obj) ==
    IF IsDict(obj)
    THEN IF ~is_wrapped_response(obj) THEN obj
         ELSE CASE obj.v["type"] = Str("simple") -> obj.v["data"]
                [] obj.v["type"] = Str("binary") -> UnwrapBinary(obj)
                [] obj.v["type"] = Str("composite") ->
                     LET it == Iterate(obj.v["data"])
                     IN  IF IsRaise(it) THEN Raise ELSE UnwrapEach(it.v)
                \* no case of the match statement applies: the function
                \* ends without a return statement
                [] OTHER -> None
    ELSE IF obj.t \in {"str", "int", "float", "bool", "list"} THEN obj
    ELSE None

\* os.path.join('local_workspace', name): an absolute name discards the
\* directory before it
AbsoluteNames == {"/tmp/plot", "/tmp/plot.png"}
JoinWorkspace(name) == IF name \in AbsoluteNames THEN name ELSE "local_workspace/" \o name

\* the file the 'binary' case opens for writing, as a sequence of at most
\* one write: none when an exception comes before open(); the file is left
\* empty when b64decode raises after open() created it
BinaryWrites(obj) ==
    LET name == IF "name" \in DOMAIN obj.v THEN obj.v["name"] ELSE Str("uuid4hex")
    IN  IF "media_type" \notin DOMAIN obj.v \/ ~IsStr(name) THEN <<>>
        ELSE LET fname == IF obj.v["media_type"] = Str("image/png") /\ ~EndsWithPng(name.v)
                          THEN AppendPng(name.v) ELSE name.v
             IN  <<[path |-> JoinWorkspace(fname), file_name |-> fname,
                    decoded |-> IsStr(obj.v["data"])]>>

\* the files unwrap_tool_response(obj) writes, in order
RECURSIVE Writes(_)
\* the files written by [unwrap_tool_response(o) for o in s], which stops at
\* the first element that raises
RECURSIVE WritesEach(_)
WritesEach(s) ==
    IF s = <<>> THEN <<>>
    ELSE IF IsRaise(unwrap_tool_response(Head(s))) THEN Writes(Head(s))
    ELSE Writes(Head(s)) \o WritesEach(Tail(s))

Writes(obj) ==
    IF IsDict(obj) /\ is_wrapped_response(obj)
    THEN CASE obj.v["type"] = Str("simple") -> <<>>
           [] obj.v["type"] = Str("binary") -> BinaryWrites(obj)
           [] obj.v["type"] = Str("composite") ->
                LET it == Iterate(obj.v["data"])
                IN  IF IsRaise(it) THEN <<>> ELSE WritesEach(it.v)
           [] OTHER -> <<>>
    ELSE <<>>

\* the envelopes of the tool server
Simple(x) == Dict([type |-> Str("simple"), data |-> x])
Composite(x) == Dict([type |-> Str("composite"), data |-> x])
Binary(name, media_type) ==
    Dict([type |-> Str("binary"), data |-> Str("aGk="), name |-> name, media_type |-> media_type])

\* wrap(x): a list becomes a composite envelope of its wrapped elements,
\* any other value a simple envelope
RECURSIVE Wrap(_)
WrapEach(s) == [i \in DOMAIN s |-> Wrap(s[i])]
Wrap(x) == IF IsList(x) THEN Composite(List(WrapEach(x.v))) ELSE Simple(x)

(***************************************************************************)
(* ToolCallStatusCode and the HTTP responses of the tool server.           *)
(***************************************************************************)
ToolCallStatusCode ==
    {"TOOL_CALL_SUCCESS", "HALLUCINATE_NAME", "FORMAT_ERROR", "TIMEOUT_ERROR",
     "TOOL_CALL_FAILED", "SERVER_ERROR", "OTHER_ERROR",
     "SUBMIT_AS_SUCCESS", "SUBMIT_AS_FAILED"}

\* the arguments of a tool call: a dict, or a string holding its JSON5 text
Args1 == Dict([q |-> Str("x")])
Args2 == Dict([q |-> Str("y")])
Args1Json == Str("{q: 'x'}")
NotJsonArgs == Str("plain text")

\* json.loads(s) (json5), by table over the strings of the model; Raise when
\* s is not JSON5
json_loads(s) ==
    CASE s = "{q: 'x'}" -> Args1
      [] s = "{q: 'y'}" -> Args2
      [] s = "{retrieved_tools: ['toolA'], tools_json: [{name: 'toolA'}]}" ->
             Dict([retrieved_tools |-> List(<<Str("toolA")>>),
                   tools_json |-> List(<<Dict([name |-> Str("toolA")])>>)])
      [] OTHER -> Raise

\* the remote tools
RemoteTools == {Str("toolA"), Str("toolB")}

\* body of a 450 response that carries a retry directive
RetryBody(next_calling, args) ==
    Dict([detail |-> Dict([type |-> Str("retry"),
                           next_calling |-> next_calling,
                           arguments |-> args])])

\* a response body that is not JSON: response.json() raises on it
NoJson == [t |-> "nojson"]

\* the HTTP statuses the tool server answers with (418 stands for every
\* status outside the classified table)
HttpStatuses == {200, 404, 422, 450, 500, 503, 418}

\* the JSON bodies the tool server sends with a status
BodiesOf(status) ==
    CASE status = 200 -> {Dict([type |-> Str("simple"), data |-> Str("ok")]),
                          \* a tool output that is itself envelope-shaped
                          Simple(Simple(Str("ok"))),
                          RetryBody(Str("toolB"), Args2), NoJson}
      [] status = 450 -> {RetryBody(Str("toolB"), Args2),
                          Dict([detail |-> Dict([type |-> Str("retry")])]),
                          Dict([detail |-> Str("timeout")]),
                          Dict([message |-> Str("timeout")])}
      [] OTHER -> {NoJson}

\* response.text of a response, by table over the bodies of the model
TextOf(status, body) ==
    CASE body = NoJson -> IF status = 200 THEN "<html>" ELSE "error text"
      [] OTHER -> "json text"

\* requests.post raised instead of returning a response
ConnectionError == [kind |-> "error", status_code |-> 0, body |-> NoJson, text |-> ""]

\* what requests.post(url, json=payload) can produce
Responses ==
    {[kind |-> "response", status_code |-> st, body |-> b, text |-> TextOf(st, b)] :
        st \in HttpStatuses, b \in UNION {BodiesOf(x) : x \in HttpStatuses}}

PostOutcomes ==
    {r \in Responses : r.body \in BodiesOf(r.status_code)} \cup {ConnectionError}

\* no request was issued
NoRequest == [kind |-> "none", status_code |-> 0, body |-> NoJson, text |-> ""]

(***************************************************************************)
(* The call cache of the running recorder (recorder.query_tool_server_cache*)
(* and recorder.regist_tool_server): a set of records keyed by             *)
(* (url, payload).                                                         *)
(***************************************************************************)
NoRecord == [url |-> "", payload |-> None, tool_output |-> None, response_status_code |-> 0]

query_tool_server_cache(c, url, payload) ==
    IF \E r \in c : r.url = url /\ r.payload = payload
    THEN CHOOSE r \in c : r.url = url /\ r.payload = payload
    ELSE NoRecord

regist_tool_server(c, url, payload, tool_output, response_status_code) ==
    {r \in c : ~(r.url = url /\ r.payload = payload)}
      \cup {[url |-> url, payload |-> payload, tool_output |-> tool_output,
             response_status_code |-> response_status_code]}

(***************************************************************************)
(* ToolServerInterface.execute_command_client                              *)
(***************************************************************************)
ExecuteToolUrl == "/execute_tool"

\* lines 314-323: the payload, with string arguments parsed when they parse
PayloadOf(command_name, arguments) ==
    [tool_name |-> command_name,
     arguments |-> IF IsStr(arguments) /\ ~IsRaise(json_loads(arguments.v))
                   THEN json_loads(arguments.v) ELSE arguments]

\* a variant of NeedRequest that ignores the cache
NeedRequest_always(redo, cache_output) == TRUE

\* line 328: is the HTTP request issued
NeedRequest(redo, cache_output) == redo \/ cache_output = NoRecord

\* a variant of ResultOfResponse that normalizes the body twice
ResultOfResponse_twice(resp) ==
    IF resp.status_code \in {200, 450}
    THEN IF resp.body = NoJson THEN Raise
         ELSE unwrap_tool_response(unwrap_tool_response(resp.body))
    ELSE Str(resp.text)

\* lines 331-335: the command result read from a response, or Raise
ResultOfResponse(resp) ==
    IF resp.status_code \in {200, 450}
    THEN IF resp.body = NoJson THEN Raise ELSE unwrap_tool_response(resp.body)
    ELSE Str(resp.text)

\* lines 337-339: a cached record overrides what the response gave
UseCache(cache_output) == cache_output # NoRecord

\* a variant of Classify with the branches of 422 and 500 exchanged
Classify_swapped(response_status_code) ==
    IF response_status_code = 200 THEN "TOOL_CALL_SUCCESS"
    ELSE IF response_status_code = 404 THEN "HALLUCINATE_NAME"
    ELSE IF response_status_code = 500 THEN "FORMAT_ERROR"
    ELSE IF response_status_code = 450 THEN "TIMEOUT_ERROR"
    ELSE IF response_status_code = 422 THEN "TOOL_CALL_FAILED"
    ELSE IF response_status_code = 503 THEN "SERVER_ERROR"
    ELSE "OTHER_ERROR"

\* lines 348-362: the status code of an HTTP status
Classify(response_status_code) ==
    IF response_status_code = 200 THEN "TOOL_CALL_SUCCESS"
    ELSE IF response_status_code = 404 THEN "HALLUCINATE_NAME"
    ELSE IF response_status_code = 422 THEN "FORMAT_ERROR"
    ELSE IF response_status_code = 450 THEN "TIMEOUT_ERROR"
    ELSE IF response_status_code = 500 THEN "TOOL_CALL_FAILED"
    ELSE IF response_status_code = 503 THEN "SERVER_ERROR"
    ELSE "OTHER_ERROR"

\* a variant of RaisesServerError without the raise
RaisesServerError_never(response_status_code) == FALSE

\* line 360: the classification that raises
RaisesServerError(response_status_code) == response_status_code = 503

\* The whole call, as a function of its inputs, the cache and the outcome of
\* the request (NoRequest when none is issued). raised: "" when the call
\* returns, else the error; stored: did it reach regist_tool_server.
execute_command_client(command_name, arguments, resp, c, redo) ==
    LET payload == PayloadOf(command_name, arguments)
        cache_output == query_tool_server_cache(c, ExecuteToolUrl, payload)
        need == NeedRequest(redo, cache_output)
        fresh == IF need /\ resp.kind = "response" THEN ResultOfResponse(resp) ELSE Raise
        base == [payload |-> payload, http |-> need,
                 hit |-> cache_output # NoRecord, cached |-> cache_output,
                 fresh_out |-> IF need THEN fresh ELSE None,
                 fresh_code |-> IF need THEN resp.status_code ELSE 0]
        failed(err) == base @@ [raised |-> err, stored |-> FALSE, cache |-> c,
                                out |-> None, response_status_code |-> 0, status |-> ""]
    IN  IF need /\ resp.kind = "error" THEN failed("ConnectionError")
        ELSE IF need /\ IsRaise(fresh) THEN failed("JSONDecodeError")
        ELSE LET command_result == IF UseCache(cache_output)
                                   THEN cache_output.tool_output ELSE fresh
                 response_status_code == IF UseCache(cache_output)
                                         THEN cache_output.response_status_code
                                         ELSE resp.status_code
             IN  base @@ [raised |-> IF RaisesServerError(response_status_code)
                                     THEN "Server Error" ELSE "",
                          stored |-> TRUE,
                          cache |-> regist_tool_server(c, ExecuteToolUrl, payload,
                                                       command_result, response_status_code),
                          out |-> command_result,
                          response_status_code |-> response_status_code,
                          status |-> Classify(response_status_code)]

(***************************************************************************)
(* FunctionHandler.handle_tool_call                                        *)
(***************************************************************************)
MAX_RETRY == 10

TimeoutMessage == Str("Timeout and no content returned! Please check the content you submit!")

\* a variant of WhileCondition that tests retry_time <= MAX_RETRY
WhileCondition_inclusive(rt, status, result) ==
    IF ~(rt <= MAX_RETRY /\ status = "TIMEOUT_ERROR") THEN "exit"
    ELSE LET detail == Subscript(result, "detail")
         IN  IF IsRaise(detail) THEN "raise"
             ELSE IF IsDict(detail) /\ "type" \in DOMAIN detail.v
                     /\ detail.v["type"] = Str("retry")
                  THEN "continue" ELSE "exit"

\* a variant of WhileCondition that does not test the status code
WhileCondition_anystatus(rt, status, result) ==
    IF ~(rt < MAX_RETRY) THEN "exit"
    ELSE LET detail == Subscript(result, "detail")
         IN  IF IsRaise(detail) THEN "raise"
             ELSE IF IsDict(detail) /\ "type" \in DOMAIN detail.v
                     /\ detail.v["type"] = Str("retry")
                  THEN "continue" ELSE "exit"

\* a variant of WhileCondition that does not test retry_time
WhileCondition_unbounded(rt, status, result) ==
    IF ~(status = "TIMEOUT_ERROR") THEN "exit"
    ELSE LET detail == Subscript(result, "detail")
         IN  IF IsRaise(detail) THEN "raise"
             ELSE IF IsDict(detail) /\ "type" \in DOMAIN detail.v
                     /\ detail.v["type"] = Str("retry")
                  THEN "continue" ELSE "exit"

\* line 558, the while condition: "continue" when it holds, "exit" when it
\* does not, "raise" when evaluating it raises (command_result['detail'] on a
\* result without that key)
WhileCondition(rt, status, result) ==
    IF ~(rt < MAX_RETRY /\ status = "TIMEOUT_ERROR") THEN "exit"
    ELSE LET detail == Subscript(result, "detail")
         IN  IF IsRaise(detail) THEN "raise"
             ELSE IF IsDict(detail) /\ "type" \in DOMAIN detail.v
                     /\ detail.v["type"] = Str("retry")
                  THEN "continue" ELSE "exit"

\* a variant of RetryCommand that retries the original command
RetryCommand_original(original_name, result) == original_name

\* lines 562-563: the command and the arguments of the retry
RetryCommand(original_name, result) ==
    Subscript(Subscript(result, "detail"), "next_calling")

RetryArguments(original_arguments, result) ==
    Subscript(Subscript(result, "detail"), "arguments")

\* a variant of AfterLoop that keeps the result of the last attempt
AfterLoop_raw(rt, status, result) == result

\* a variant of AfterLoop that replaces the result of every timeout
AfterLoop_anytimeout(rt, status, result) ==
    IF status = "TIMEOUT_ERROR" THEN TimeoutMessage ELSE result

\* lines 567-568: the result after the loop
AfterLoop(rt, status, result) ==
    IF status = "TIMEOUT_ERROR" /\ rt = MAX_RETRY THEN TimeoutMessage ELSE result

\* lines 484-515 for a command that is neither WebEnv_browse_website nor
\* WebEnv_search_and_browse (the remote tools of the model are neither)
long_result_summary(name, result) == result

\* line 573: f"Command {command_name} returned: " + f"{command_result}"
FormatResult(name, result) == <<"Command ", name, " returned: ", result>>

VARIABLES
    redo_action,             \* CONFIG['experiment']['redo_action']
    cache,                   \* the recorder's call cache
    tool_calls,              \* the records this invocation gave recorder.regist_tool_call
    pc,                      \* position of handle_tool_call
    command_name, arguments, \* node.data["command"]["properties"]
    command_result, tool_output_status_code, retry_time, plan_refine,
    node,                    \* node.data["tool_output"], ["tool_status_code"], node.history
    ret,                     \* what handle_tool_call returned
    invocations,             \* handle_tool_call invocations so far
    attempts,                \* execute_command_client calls of this invocation
    http_requests,           \* requests to /execute_tool of this invocation
    last,                    \* the latest execute_command_client call of this invocation
    first,                   \* per payload, the first outcome execute_command_client produced
    lookups,                 \* cache lookups of this invocation
    in_flight,               \* requests sent and not yet answered
    pending,                 \* the execute_command_client call waiting for its response
    disc,                    \* the latest tool-discovery call
    dfirst,                  \* per (url, payload), what the first storing discovery call returned
    registry,                \* the schemas given to function_manager.register_function
    disc_calls,              \* tool-discovery calls so far
    value,                   \* the value a tool's response is being made of
    depth,                   \* the nesting depth of value
    obj,                     \* the argument of the latest unwrap_tool_response call
    unwrapped,               \* what that call returned (Raise when it raised)
    files,                   \* the files that call wrote, in order
    prompts,                 \* the arguments input() was called for, in order
    human,                   \* the latest handle_human_help call
    iface,                   \* toolserver_interface: config, url, cookies
    session,                 \* the latest operation on toolserver_interface
    saved,                   \* the paths download_file and download_all_files wrote
    sum_pc,                  \* position of long_result_summary's main thread
    max_workers,             \* the size of the ThreadPoolExecutor
    pages,                   \* result as long_result_summary received it
    slots,                   \* result, whose entries the main thread rewrites
    futures,                 \* f, the futures of the submitted sub-tasks
    collected,               \* how many futures the zip loop has consumed
    order,                   \* the indexes of the sub-tasks in completion order
    ipc,                     \* position of XAgentServer.interact
    trace,                   \* the steps interact has taken, with their outcome
    to_upload,               \* how many files of file_list are still to upload
    completion,              \* the latest chatcompletion_request call
    id2tool_file,            \* the file cfg['id2tool_file'] of the retriever
    embedding_file,          \* the file cfg['embedding_file'] of the retriever
    built                    \* the latest build_tool_embeddings call

\* the variables of handle_tool_call, the call cache apart
handler_vars == <<redo_action, tool_calls, pc, command_name, arguments,
                  command_result, tool_output_status_code, retry_time, plan_refine,
                  node, ret, invocations, attempts, http_requests, last, first,
                  lookups, in_flight, pending>>

\* the variables of the tool-discovery calls
discovery_vars == <<disc, dfirst, registry, disc_calls>>

\* the variables handle_tool_call leaves alone
\* the variables of the unwrap_tool_response calls
unwrap_vars == <<value, depth, obj, unwrapped, files>>

\* the variables of the commands handled without the tool server
local_vars == <<prompts, human>>

\* the variables of the session with the tool server
session_vars == <<iface, session, saved>>

\* the variables of the summary of a WebEnv_search_and_browse result
summary_vars == <<sum_pc, max_workers, pages, slots, futures, collected, order>>

\* the variables of XAgentServer.interact
interact_vars == <<ipc, trace, to_upload>>

\* the variables of the code around the tool-call handler
\* the variables of the tool server's retriever
retriever_vars == <<id2tool_file, embedding_file, built>>

server_vars == <<interact_vars, completion, retriever_vars>>

aux_vars == <<discovery_vars, unwrap_vars, local_vars, session_vars, summary_vars,
              server_vars>>

vars == <<cache, handler_vars, aux_vars>>

NoCall == [n |-> 0]
NoPending == [command_name |-> None, arguments |-> None]
NoReturn == [returned |-> FALSE]
NewNode == [tool_output |-> None, tool_status_code |-> "", history |-> <<>>]

\* the (command, arguments) pairs the reasoning loop invokes
Invocable ==
    {<<Str("toolA"), Args1>>, <<Str("toolA"), Args1Json>>, <<Str("toolA"), NotJsonArgs>>,
     <<Str("toolB"), Args2>>, <<Str(""), Args1>>, <<None, Args1>>}

Init ==
    /\ redo_action \in BOOLEAN
    /\ cache = {}
    /\ tool_calls = <<>>
    /\ pc = "idle"
    /\ command_name = None
    /\ arguments = None
    /\ command_result = None
    /\ tool_output_status_code = ""
    /\ retry_time = 0
    /\ plan_refine = FALSE
    /\ node = NewNode
    /\ ret = NoReturn
    /\ invocations = 0
    /\ attempts = 0
    /\ http_requests = 0
    /\ last = NoCall
    /\ first = {}
    /\ lookups = 0
    /\ in_flight = 0
    /\ pending = NoPending
    /\ disc = NoCall
    /\ dfirst = {}
    /\ registry = {}
    /\ disc_calls = 0
    /\ value = None
    /\ depth = 0
    /\ obj = None
    /\ unwrapped = None
    /\ files = <<>>
    /\ prompts = <<>>
    /\ human = NoCall
    /\ iface = [config |-> [unset |-> TRUE], url |-> "unset", cookies |-> "unset"]
    /\ session = NoCall
    /\ saved = {}
    /\ sum_pc = "idle"
    /\ max_workers = 0
    /\ pages = <<>>
    /\ slots = <<>>
    /\ futures = <<>>
    /\ collected = 0
    /\ order = <<>>
    /\ ipc = "lazy_init"
    /\ trace = <<>>
    /\ to_upload = 0
    /\ completion = NoCall
    /\ id2tool_file = [exists |-> FALSE, readable |-> FALSE, content |-> <<>>]
    /\ embedding_file = [exists |-> FALSE, readable |-> FALSE, content |-> <<>>]
    /\ built = NoCall

\* The end of one call of execute_command_client from handle_tool_call: r
\* is its outcome; prev_* are the result and status the handler held before
\* it.
CallExecute(name, args, r) ==
    /\ cache' = r.cache
    /\ attempts' = attempts + 1
    /\ last' = [n |-> attempts + 1, command_name |-> name, arguments |-> args,
                prev_out |-> command_result, prev_status |-> tool_output_status_code,
                prior |-> {f \in first : f.payload = r.payload}] @@ r
    /\ first' = IF r.stored /\ ~(\E f \in first : f.payload = r.payload)
                THEN first \cup {[payload |-> r.payload, out |-> r.out,
                                  response_status_code |-> r.response_status_code,
                                  status |-> r.status, raised |-> r.raised]}
                ELSE first
    /\ IF r.raised # ""
       THEN /\ pc' = "raised"
            /\ UNCHANGED <<command_result, tool_output_status_code>>
       ELSE /\ pc' = "loop"
            /\ command_result' = r.out
            /\ tool_output_status_code' = r.status

\* a variant of BeginCall that sends the request without the cache lookup
BeginCall_nolookup(name, args) ==
    /\ pc' = "request"
    /\ pending' = [command_name |-> name, arguments |-> args]
    /\ in_flight' = in_flight + 1
    /\ http_requests' = http_requests + 1
    /\ UNCHANGED <<lookups, cache, attempts, last, first, command_result,
                   tool_output_status_code>>

\* lines 313-329: the start of one call of execute_command_client: the cache
\* lookup, then either the request is sent (the call waits for the
\* response) or the call goes on with the cached record
BeginCall(name, args) ==
    /\ lookups' = lookups + 1
    /\ IF NeedRequest(redo_action,
                      query_tool_server_cache(cache, ExecuteToolUrl, PayloadOf(name, args)))
       THEN /\ pc' = "request"
            /\ pending' = [command_name |-> name, arguments |-> args]
            /\ in_flight' = in_flight + 1
            /\ http_requests' = http_requests + 1
            /\ UNCHANGED <<cache, attempts, last, first, command_result,
                           tool_output_status_code>>
       ELSE /\ CallExecute(name, args,
                           execute_command_client(name, args, NoRequest, cache, redo_action))
            /\ UNCHANGED <<pending, in_flight, http_requests>>

\* lines 329-366: requests.post returns (or raises) and the call ends
Receive(resp) ==
    /\ pc = "request"
    /\ CallExecute(pending.command_name, pending.arguments,
                   execute_command_client(pending.command_name, pending.arguments,
                                          resp, cache, redo_action))
    /\ in_flight' = in_flight - 1
    /\ pending' = NoPending
    /\ UNCHANGED <<redo_action, tool_calls, command_name, arguments, retry_time,
                   plan_refine, node, ret, invocations, http_requests, lookups>>
    /\ UNCHANGED aux_vars

\* a variant of Complete that registers no tool-call record
Complete_norecord(name, args, refine, result0, status) ==
    LET result1 == IF status = "TOOL_CALL_SUCCESS"
                   THEN long_result_summary(name, result0) ELSE result0
        using_tools == [tool_name |-> name, tool_input |-> args,
                        tool_output |-> result1, tool_status_code |-> status]
    IN  /\ command_result' = result1
        /\ tool_output_status_code' = status
        /\ node' = [tool_output |-> result1, tool_status_code |-> status,
                    history |-> Append(node.history, FormatResult(name, result1))]
        /\ tool_calls' = tool_calls
        /\ ret' = [returned |-> TRUE, result |-> FormatResult(name, result1),
                   tool_output_status_code |-> status, plan_refine |-> refine,
                   using_tools |-> using_tools]
        /\ pc' = "done"

\* lines 570-620: summary, node update, tool-call record, return
Complete(name, args, refine, result0, status) ==
    LET result1 == IF status = "TOOL_CALL_SUCCESS"
                   THEN long_result_summary(name, result0) ELSE result0
        using_tools == [tool_name |-> name, tool_input |-> args,
                        tool_output |-> result1, tool_status_code |-> status]
    IN  /\ command_result' = result1
        /\ tool_output_status_code' = status
        /\ node' = [tool_output |-> result1, tool_status_code |-> status,
                    history |-> Append(node.history, FormatResult(name, result1))]
        /\ tool_calls' = Append(tool_calls, using_tools)
        /\ ret' = [returned |-> TRUE, result |-> FormatResult(name, result1),
                   tool_output_status_code |-> status, plan_refine |-> refine,
                   using_tools |-> using_tools]
        /\ pc' = "done"

\* lines 528-554, a remote command: the first execute_command_client call
HandleRemote(name, args) ==
    /\ pc = "idle"
    /\ invocations < MaxInvocations
    /\ name \in RemoteTools
    /\ invocations' = invocations + 1
    /\ plan_refine' = FALSE
    /\ command_name' = name
    /\ arguments' = args
    /\ retry_time' = 0
    /\ BeginCall(name, args)
    /\ UNCHANGED <<redo_action, tool_calls, node, ret>>
    /\ UNCHANGED aux_vars

\* a variant of HandleEmpty that hands the command to execute_command_client
HandleEmpty_remote(name, args) ==
    /\ pc = "idle"
    /\ invocations < MaxInvocations
    /\ name = Str("") \/ name = None
    /\ invocations' = invocations + 1
    /\ plan_refine' = FALSE
    /\ command_name' = name
    /\ arguments' = args
    /\ retry_time' = 0
    /\ BeginCall(name, args)
    /\ UNCHANGED <<redo_action, tool_calls, node, ret>>
    /\ UNCHANGED aux_vars

\* lines 546-548 and 570-620: the empty or absent command name
HandleEmpty(name, args) ==
    /\ pc = "idle"
    /\ invocations < MaxInvocations
    /\ name = Str("") \/ name = None
    /\ invocations' = invocations + 1
    /\ plan_refine' = FALSE
    /\ command_name' = name
    /\ arguments' = args
    /\ Complete(name, args, FALSE, Str(""), "TOOL_CALL_SUCCESS")
    /\ UNCHANGED <<redo_action, cache, retry_time, attempts, http_requests, last, first,
                   lookups, in_flight, pending>>
    /\ UNCHANGED aux_vars

\* lines 558-564: one iteration of the retry loop
Retry ==
    /\ pc = "loop"
    /\ WhileCondition(retry_time, tool_output_status_code, command_result) = "continue"
    /\ retry_time' = retry_time + 1
    /\ LET name == RetryCommand(command_name, command_result)
           args == RetryArguments(arguments, command_result)
       IN  IF IsRaise(name) \/ IsRaise(args)
           THEN /\ pc' = "raised"
                /\ UNCHANGED <<cache, attempts, http_requests, last, first,
                               command_result, tool_output_status_code,
                               lookups, in_flight, pending>>
           ELSE BeginCall(name, args)
    /\ UNCHANGED <<redo_action, tool_calls, command_name, arguments, plan_refine,
                   node, ret, invocations>>
    /\ UNCHANGED aux_vars

\* line 558 raising: the handler ends with the error
WhileRaises ==
    /\ pc = "loop"
    /\ WhileCondition(retry_time, tool_output_status_code, command_result) = "raise"
    /\ pc' = "raised"
    /\ UNCHANGED <<redo_action, cache, tool_calls, command_name, arguments,
                   command_result, tool_output_status_code, retry_time, plan_refine,
                   node, ret, invocations, attempts, http_requests, last, first,
                   lookups, in_flight, pending>>
    /\ UNCHANGED aux_vars

\* lines 567-620: the loop is left and the handler returns
Finish ==
    /\ pc = "loop"
    /\ WhileCondition(retry_time, tool_output_status_code, command_result) = "exit"
    /\ Complete(command_name, arguments, plan_refine,
                AfterLoop(retry_time, tool_output_status_code, command_result),
                tool_output_status_code)
    /\ UNCHANGED <<redo_action, cache, command_name, arguments, retry_time, plan_refine,
                   invocations, attempts, http_requests, last, first,
                   lookups, in_flight, pending>>
    /\ UNCHANGED aux_vars

\* the caller takes the returned tuple, or the raised error; the recorder
\* has written the registered records out
Return ==
    /\ pc \in {"done", "raised"}
    /\ pc' = "idle"
    /\ command_name' = None
    /\ arguments' = None
    /\ command_result' = None
    /\ tool_output_status_code' = ""
    /\ retry_time' = 0
    /\ node' = NewNode
    /\ ret' = NoReturn
    /\ attempts' = 0
    /\ http_requests' = 0
    /\ last' = NoCall
    /\ tool_calls' = <<>>
    /\ lookups' = 0
    /\ UNCHANGED <<redo_action, cache, plan_refine, invocations, first, in_flight, pending>>
    /\ UNCHANGED aux_vars

Next ==
    \/ \E c \in Invocable : HandleRemote(c[1], c[2])
    \/ \E c \in Invocable : HandleEmpty(c[1], c[2])
    \/ \E resp \in PostOutcomes : Receive(resp)
    \/ Retry
    \/ WhileRaises
    \/ Finish
    \/ Return

Spec == Init /\ [][Next]_vars

(***************************************************************************)
(* Tool discovery: get_available_tools, retrieve_rapidapi_tools and        *)
(* get_json_schema_for_tools, each keyed in the call cache by              *)
(* (url, payload).                                                         *)
(***************************************************************************)
AvailableToolsUrl == "/get_available_tools"
RetrievingToolsUrl == "/retrieving_tools"
JsonSchemaUrl == "/get_json_schema_for_tools"

ToolJson == Dict([name |-> Str("toolA")])
AvailableBody == Dict([available_tools |-> List(<<Str("toolA")>>), tools_json |-> List(<<ToolJson>>)])
RetrievedBody == Dict([retrieved_tools |-> List(<<Str("toolA")>>), tools_json |-> List(<<ToolJson>>)])
\* the same body sent as a JSON string, so that response.json() is a str
RetrievedText == Str("{retrieved_tools: ['toolA'], tools_json: [{name: 'toolA'}]}")
SchemaBody == Dict([toolA |-> ToolJson])
ErrorBody == Dict([detail |-> Str("internal error")])

\* the bodies the tool server sends from a discovery endpoint with status 200
DiscoveryBodies(url) ==
    CASE url = AvailableToolsUrl -> {AvailableBody, NoJson}
      [] url = RetrievingToolsUrl -> {RetrievedBody, RetrievedText, NoJson}
      [] url = JsonSchemaUrl -> {SchemaBody, List(<<ToolJson>>), NoJson}

\* what requests.post(url, json=payload, timeout=...) can produce
DiscoveryOutcomes(url) ==
    {[kind |-> "response", status_code |-> 200, body |-> b, text |-> TextOf(200, b)] :
        b \in DiscoveryBodies(url)}
      \cup {[kind |-> "response", status_code |-> 500, body |-> ErrorBody, text |-> "json text"],
            ConnectionError}

\* the queries of retrieve_rapidapi_tools and the name lists of
\* get_json_schema_for_tools
Queries == {Str("weather"), Str("news")}
CommandNames == {List(<<Str("toolA")>>), List(<<Str("toolA"), Str("toolB")>>)}

\* cache_output[key] on a record of the call cache: KeyError on a key the
\* record does not have
MissingField(cache_output, key) == key \notin DOMAIN cache_output
\* cache_output[key] where the record has the key
RecordField(cache_output, key) == cache_output[key]

\* lines 197-198, 233-234: a body that is not a dict goes through json.loads
LoadIfNotDict(body) ==
    IF IsDict(body) THEN body
    ELSE IF IsStr(body) THEN json_loads(body.v)
    ELSE Raise

\* what a discovery call does: whether it sent a request, whether it found
\* a record, the exception it leaves with, the value it returns, the schemas
\* it registers and the cache it leaves
DiscoveryResult(http, hit, raised, r, registered, c) ==
    [http |-> http, hit |-> hit, raised |-> raised, ret |-> r,
     registered |-> registered, cache |-> c]

get_available_tools(resp, c) ==
    LET payload == Dict(<<>>)
        url == AvailableToolsUrl
        cache_output == query_tool_server_cache(c, url, payload)
        hit == cache_output # NoRecord
    IN  IF hit
        THEN LET response == RecordField(cache_output, "tool_output")
                 status_code == RecordField(cache_output, "response_status_code")
             IN  IF MissingField(cache_output, "response_status_code")
                 THEN DiscoveryResult(FALSE, TRUE, "Exception", None, {}, c)
                 ELSE DiscoveryResult(FALSE, TRUE, "", response, {},
                          regist_tool_server(c, url, payload, response, status_code))
        ELSE IF resp.kind = "error" \/ resp.status_code >= 400 \/ resp.body = NoJson
                \/ IsRaise(LoadIfNotDict(resp.body))
             THEN DiscoveryResult(TRUE, FALSE, "Exception", None, {}, c)
             ELSE LET response == LoadIfNotDict(resp.body)
                  IN  DiscoveryResult(TRUE, FALSE, "", response, {},
                          regist_tool_server(c, url, payload, response, resp.status_code))

\* the (None, None) of line 250
NonePair == List(<<None, None>>)

\* lines 228, 272: the key read from a cached record
StatusCodeKey == "tool_output_status_code"

retrieve_rapidapi_tools(query, top_k, resp, c) ==
    LET url == RetrievingToolsUrl
        payload == Dict([question |-> query, top_k |-> top_k])
        cache_output == query_tool_server_cache(c, url, payload)
        hit == cache_output # NoRecord
        \* lines 239-242, after the record is stored in cache c2
        Extract(response, c2) ==
            LET retrieved_tools == Subscript(response, "retrieved_tools")
                tools_json == Subscript(response, "tools_json")
            IN  IF IsRaise(retrieved_tools) \/ IsRaise(tools_json) \/ IsRaise(Iterate(tools_json))
                THEN DiscoveryResult(~hit, hit, "", NonePair, {}, c2)
                ELSE DiscoveryResult(~hit, hit, "", List(<<retrieved_tools, tools_json>>),
                         {Iterate(tools_json).v[i] : i \in DOMAIN Iterate(tools_json).v}, c2)
    IN  IF hit
        THEN LET response == RecordField(cache_output, "tool_output")
                 status_code == RecordField(cache_output, StatusCodeKey)
             IN  IF MissingField(cache_output, StatusCodeKey)
                 THEN DiscoveryResult(FALSE, TRUE, "", NonePair, {}, c)
                 ELSE Extract(response, regist_tool_server(c, url, payload, response, status_code))
        ELSE IF resp.kind = "error"
             \* line 249 prints a name that was never bound
             THEN DiscoveryResult(TRUE, FALSE, "UnboundLocalError", None, {}, c)
             ELSE IF resp.body = NoJson \/ IsRaise(LoadIfNotDict(resp.body))
             THEN DiscoveryResult(TRUE, FALSE, "", NonePair, {}, c)
             ELSE LET response == LoadIfNotDict(resp.body)
                  IN  Extract(response,
                          regist_tool_server(c, url, payload, response, resp.status_code))

get_json_schema_for_tools(command_names, resp, c) ==
    LET url == JsonSchemaUrl
        payload == Dict([tool_names |-> command_names])
        cache_output == query_tool_server_cache(c, url, payload)
        hit == cache_output # NoRecord
    IN  IF hit
        THEN LET response == RecordField(cache_output, "tool_output")
                 status_code == RecordField(cache_output, StatusCodeKey)
             IN  IF MissingField(cache_output, StatusCodeKey)
                 THEN DiscoveryResult(FALSE, TRUE, "", None, {}, c)
                 ELSE DiscoveryResult(FALSE, TRUE, "", response, {response},
                          regist_tool_server(c, url, payload, response, status_code))
        ELSE IF resp.kind = "error" \/ resp.body = NoJson
             THEN DiscoveryResult(TRUE, FALSE, "", None, {}, c)
             ELSE LET loaded == LoadIfNotDict(resp.body)
                      \* lines 278-281: a failing json.loads is passed over
                      response == IF IsRaise(loaded) THEN resp.body ELSE loaded
                  IN  DiscoveryResult(TRUE, FALSE, "", response, {response},
                          regist_tool_server(c, url, payload, response, resp.status_code))

\* one discovery call fn(url, payload) with result r; the request is sent
\* and answered inside the call
DiscoveryCall(fn, url, payload, r) ==
    /\ pc = "idle"
    /\ disc_calls < MaxDiscoveryCalls
    /\ disc_calls' = disc_calls + 1
    /\ cache' = r.cache
    /\ registry' = registry \cup r.registered
    /\ disc' = [n |-> disc_calls + 1, fn |-> fn, url |-> url, payload |-> payload,
                stored |-> query_tool_server_cache(cache, url, payload) # NoRecord,
                prior |-> {f \in dfirst : f.url = url /\ f.payload = payload}] @@ r
    /\ dfirst' = IF r.cache # cache /\ ~r.hit
                    /\ ~\E f \in dfirst : f.url = url /\ f.payload = payload
                 THEN dfirst \cup {[url |-> url, payload |-> payload, ret |-> r.ret]}
                 ELSE dfirst
    /\ UNCHANGED <<handler_vars, unwrap_vars, local_vars, session_vars, summary_vars, server_vars>>

GetAvailableTools(resp) ==
    DiscoveryCall("get_available_tools", AvailableToolsUrl, Dict(<<>>),
                  get_available_tools(resp, cache))

RetrieveRapidapiTools(query, resp) ==
    DiscoveryCall("retrieve_rapidapi_tools", RetrievingToolsUrl,
                  Dict([question |-> query, top_k |-> IntV(10)]),
                  retrieve_rapidapi_tools(query, IntV(10), resp, cache))

GetJsonSchemaForTools(command_names, resp) ==
    DiscoveryCall("get_json_schema_for_tools", JsonSchemaUrl,
                  Dict([tool_names |-> command_names]),
                  get_json_schema_for_tools(command_names, resp, cache))

DiscoveryNext ==
    \/ \E resp \in DiscoveryOutcomes(AvailableToolsUrl) : GetAvailableTools(resp)
    \/ \E q \in Queries, resp \in DiscoveryOutcomes(RetrievingToolsUrl) :
           RetrieveRapidapiTools(q, resp)
    \/ \E names \in CommandNames, resp \in DiscoveryOutcomes(JsonSchemaUrl) :
           GetJsonSchemaForTools(names, resp)

DiscoverySpec == Init /\ [][DiscoveryNext]_vars

(***************************************************************************)
(* unwrap_tool_response applied to the values a tool server can send.      *)
(***************************************************************************)
\* an object that is neither a dict, a scalar, a list nor None
OtherObject == [t |-> "object"]
PlainDict == Dict([k |-> Str("v")])
\* mappings that are not envelopes: no 'data', or a 'type' outside the three
NoDataDict == Dict([type |-> Str("simple")])
OtherTypeDict == Dict([type |-> Str("other"), data |-> Str("ok")])
NoTypeDict == Dict([data |-> Str("ok")])

BinaryNoMediaType == Dict([type |-> Str("binary"), data |-> Str("aGk="), name |-> Str("plot")])
BinaryNoName == Dict([type |-> Str("binary"), data |-> Str("aGk="), media_type |-> Str("image/png")])
BinaryEnvelopes ==
    {Binary(Str(n), Str(m)) : n \in {"plot", "plot.png", "/tmp/plot"},
                              m \in {"image/png", "text/plain"}}
      \cup {BinaryNoName, BinaryNoMediaType, Binary(IntV(1), Str("text/plain"))}

\* the values a response starts from
Atoms ==
    {None, Str("ok"), IntV(1), List(<<>>), OtherObject,
     PlainDict, NoDataDict, OtherTypeDict, NoTypeDict} \cup BinaryEnvelopes
\* the values appended to a list
ExtAtoms == {Str("ok"), Simple(Str("ok"))}

NoUnwrap == /\ obj' = None /\ unwrapped' = None /\ files' = <<>>

Pick(a) ==
    /\ value' = a
    /\ depth' = 0
    /\ NoUnwrap
    /\ UNCHANGED <<cache, handler_vars, discovery_vars, local_vars, session_vars, summary_vars, server_vars>>

Enclose ==
    /\ depth < MaxDepth
    /\ value' = List(<<value>>)
    /\ depth' = depth + 1
    /\ NoUnwrap
    /\ UNCHANGED <<cache, handler_vars, discovery_vars, local_vars, session_vars, summary_vars, server_vars>>

Extend(a) ==
    /\ IsList(value)
    /\ Len(value.v) < MaxLen
    /\ value' = List(Append(value.v, a))
    /\ NoUnwrap
    /\ UNCHANGED <<depth, cache, handler_vars, discovery_vars, local_vars, session_vars, summary_vars, server_vars>>

\* the arguments made of value: as it is, wrapped, or as the data of an
\* envelope
InputsOf(v) == {v, Wrap(v), Simple(v), Composite(v)}

Unwrap(x) ==
    /\ obj' = x
    /\ unwrapped' = unwrap_tool_response(x)
    /\ files' = Writes(x)
    /\ UNCHANGED <<value, depth, cache, handler_vars, discovery_vars, local_vars, session_vars, summary_vars, server_vars>>

UnwrapNext ==
    \/ \E a \in Atoms : Pick(a)
    \/ Enclose
    \/ \E a \in ExtAtoms : Extend(a)
    \/ \E x \in InputsOf(value) : Unwrap(x)

UnwrapSpec == Init /\ [][UnwrapNext]_vars

(***************************************************************************)
(* The commands handle_tool_call handles without the tool server:          *)
(* subtask_submit (handle_subtask_submit, log_task_submit) and             *)
(* ask_human_for_help (handle_human_help).                                 *)
(***************************************************************************)
SubmitTypes == {"complete", "give_up"}

\* the arguments of subtask_submit: with_details tells whether
\* result.conclusion and suggestions_for_latter_subtasks_plan.reason are
\* given
SubmitArgs(success, need, submit_type, with_details) ==
    Dict([result |->
              IF with_details
              THEN Dict([success |-> BoolV(success), conclusion |-> Str("done")])
              ELSE Dict([success |-> BoolV(success)]),
          submit_type |-> Str(submit_type),
          suggestions_for_latter_subtasks_plan |->
              IF with_details
              THEN Dict([need_for_plan_refine |-> BoolV(need), reason |-> Str("none")])
              ELSE Dict([need_for_plan_refine |-> BoolV(need)])])

SubmitArguments ==
    {SubmitArgs(s, n, st, d) : s \in BOOLEAN, n \in BOOLEAN, st \in SubmitTypes, d \in BOOLEAN}

\* bool(x) and the test "if x:", for the values of the model
Truthy(x) ==
    CASE x.t = "bool" -> x.b
      [] x.t = "none" -> FALSE
      [] x.t = "str" -> x.v # ""
      [] OTHER -> TRUE

\* lines 644-647: json.dumps of the answer
Acknowledgment(submit_type) ==
    Str("{\"content\": \"you have successfully submit the subtask as " \o submit_type \o "\"}")

\* a variant of handle_subtask_submit that always asks for a plan refinement
handle_subtask_submit_refine(args) ==
    LET success == Subscript(Subscript(args, "result"), "success")
        need == Subscript(Subscript(args, "suggestions_for_latter_subtasks_plan"),
                          "need_for_plan_refine")
        submit_type == Subscript(args, "submit_type")
    IN  IF IsRaise(success) \/ IsRaise(need) \/ IsRaise(submit_type) \/ ~IsStr(submit_type)
        THEN [raised |-> TRUE]
        ELSE [raised |-> FALSE,
              plan_refine |-> TRUE,
              tool_output_status_code |->
                  IF Truthy(success) THEN "SUBMIT_AS_SUCCESS" ELSE "SUBMIT_AS_FAILED",
              command_result |-> Acknowledgment(submit_type.v)]

\* handle_subtask_submit(arguments): (plan_refine, status, command_result),
\* or raised when a key is missing
handle_subtask_submit(args) ==
    LET success == Subscript(Subscript(args, "result"), "success")
        need == Subscript(Subscript(args, "suggestions_for_latter_subtasks_plan"),
                          "need_for_plan_refine")
        submit_type == Subscript(args, "submit_type")
    IN  IF IsRaise(success) \/ IsRaise(need) \/ IsRaise(submit_type) \/ ~IsStr(submit_type)
        THEN [raised |-> TRUE]
        ELSE [raised |-> FALSE,
              plan_refine |-> Truthy(need),
              tool_output_status_code |->
                  IF Truthy(success) THEN "SUBMIT_AS_SUCCESS" ELSE "SUBMIT_AS_FAILED",
              command_result |-> Acknowledgment(submit_type.v)]

\* log_task_submit(arguments) raises KeyError when a key it prints is missing
LogTaskSubmitRaises(args) ==
    \/ IsRaise(Subscript(args, "submit_type"))
    \/ IsRaise(Subscript(Subscript(args, "result"), "success"))
    \/ IsRaise(Subscript(Subscript(args, "result"), "conclusion"))
    \/ IsRaise(Subscript(Subscript(args, "suggestions_for_latter_subtasks_plan"),
                         "need_for_plan_refine"))
    \/ IsRaise(Subscript(Subscript(args, "suggestions_for_latter_subtasks_plan"), "reason"))

\* lines 540-541 and 570-620 for subtask_submit
HandleSubmit(args) ==
    LET name == Str("subtask_submit")
        r == handle_subtask_submit(args)
    IN  /\ pc = "idle"
        /\ invocations < MaxInvocations
        /\ invocations' = invocations + 1
        /\ command_name' = name
        /\ arguments' = args
        /\ IF r.raised
           THEN /\ pc' = "raised"
                /\ plan_refine' = FALSE
                /\ UNCHANGED <<command_result, tool_output_status_code, node, tool_calls, ret>>
           ELSE /\ plan_refine' = r.plan_refine
                /\ IF LogTaskSubmitRaises(args)
                   \* line 618 raises after the node and the tool-call record
                   \* were written
                   THEN LET using_tools == [tool_name |-> name, tool_input |-> args,
                                            tool_output |-> r.command_result,
                                            tool_status_code |-> r.tool_output_status_code]
                        IN  /\ command_result' = r.command_result
                            /\ tool_output_status_code' = r.tool_output_status_code
                            /\ node' = [tool_output |-> r.command_result,
                                        tool_status_code |-> r.tool_output_status_code,
                                        history |-> Append(node.history,
                                                       FormatResult(name, r.command_result))]
                            /\ tool_calls' = Append(tool_calls, using_tools)
                            /\ pc' = "raised"
                            /\ UNCHANGED ret
                   ELSE Complete(name, args, r.plan_refine, r.command_result,
                                 r.tool_output_status_code)
        /\ UNCHANGED <<redo_action, cache, retry_time, attempts, http_requests, last, first,
                       lookups, in_flight, pending>>
        /\ UNCHANGED aux_vars

HumanUrl == "ask_human"
HumanStatus == "human has no status :)"
HumanArguments == {Dict([question |-> Str("which file?")]), Dict([question |-> Str("go on?")])}
\* the lines input() can read
HumanTexts == {"a.txt", "yes"}

\* line 674: json.dumps({"output": f"{human_suggestion}"})
HumanOutput(text) == Str("{\"output\": \"" \o text \o "\"}")

\* a variant of HumanCacheHit that never finds the record
HumanCacheHit_never(tool_cache) == FALSE
\* line 670: tool_cache != None
HumanCacheHit(tool_cache) == tool_cache.url # NoRecord.url

\* handle_human_help(arguments), text being the line input() reads when it
\* is called
handle_human_help(args, text, c) ==
    LET url == HumanUrl
        payload == args
        tool_cache == query_tool_server_cache(c, url, payload)
        hit == HumanCacheHit(tool_cache)
        result == IF hit THEN tool_cache.tool_output ELSE HumanOutput(text)
        status_code == IF hit THEN tool_cache.response_status_code ELSE HumanStatus
    IN  [hit |-> hit, prompted |-> ~hit, payload |-> payload,
         cache |-> regist_tool_server(c, url, payload, result, status_code),
         plan_refine |-> FALSE, tool_output_status_code |-> "TOOL_CALL_SUCCESS",
         command_result |-> result]

\* lines 542-543 and 570-620 for ask_human_for_help
HandleHumanHelp(args, text) ==
    LET name == Str("ask_human_for_help")
        r == handle_human_help(args, text, cache)
    IN  /\ pc = "idle"
        /\ invocations < MaxInvocations
        /\ invocations' = invocations + 1
        /\ command_name' = name
        /\ arguments' = args
        /\ plan_refine' = r.plan_refine
        /\ lookups' = lookups + 1
        /\ cache' = r.cache
        /\ prompts' = IF r.prompted THEN Append(prompts, args) ELSE prompts
        /\ human' = [n |-> invocations + 1, text |-> text,
                     had_record |-> \E x \in cache : x.url = HumanUrl /\ x.payload = args,
                     before |-> query_tool_server_cache(cache, HumanUrl, args).tool_output] @@ r
        /\ Complete(name, args, r.plan_refine, r.command_result, r.tool_output_status_code)
        /\ UNCHANGED <<redo_action, retry_time, attempts, http_requests, last, first,
                       in_flight, pending>>
        /\ UNCHANGED <<discovery_vars, unwrap_vars, session_vars, summary_vars, server_vars>>

LocalNext ==
    \/ \E args \in SubmitArguments : HandleSubmit(args)
    \/ \E args \in HumanArguments, text \in HumanTexts : HandleHumanHelp(args, text)
    \/ Return

LocalSpec == Init /\ [][LocalNext]_vars

(***************************************************************************)
(* handle_tool_call over every command it dispatches on lines 540-554.     *)
(***************************************************************************)
DispatchNext ==
    \/ Next
    \/ \E args \in SubmitArguments : HandleSubmit(args)
    \/ \E args \in HumanArguments, text \in HumanTexts : HandleHumanHelp(args, text)

DispatchSpec == Init /\ [][DispatchNext]_vars

\* the commands whose handling needs no human, with one invocation less
\* than the budget
LiveNext ==
    /\ \/ Next
       \/ \E args \in SubmitArguments : HandleSubmit(args)
    /\ invocations' < MaxInvocations

\* The handler is one thread of sequential code: a step it can take, it
\* takes; a request that was sent returns (or fails).
LiveSpec ==
    /\ Init /\ [][LiveNext]_vars
    /\ WF_vars(\E resp \in PostOutcomes : Receive(resp))
    /\ WF_vars(Retry)
    /\ WF_vars(WhileRaises)
    /\ WF_vars(Finish)

(***************************************************************************)
(* The session of ToolServerInterface: lazy_init, close, the file-transfer *)
(* calls, and the calls that read the session (execute_command_client, the *)
(* tool-discovery calls).                                                  *)
(***************************************************************************)
ToolServerUrl == "http://toolserver:8080"
Configs ==
    {[use_selfhost_toolserver |-> b, selfhost_toolserver_url |-> ToolServerUrl] :
        b \in BOOLEAN}

\* what requests.post(f'{self.url}/get_cookie') can produce
CookieOutcomes ==
    {[kind |-> "response", status_code |-> 200, cookies |-> c] : c \in {"c1", "c2"}}
      \cup {[kind |-> "error", status_code |-> 0, cookies |-> ""]}

\* what the requests of close and of the file-transfer calls can produce
TransferBody == Dict([status |-> Str("ok")])
TransferOutcomes ==
    {[kind |-> "response", status_code |-> 200, body |-> TransferBody, text |-> "json text"],
     [kind |-> "response", status_code |-> 200, body |-> NoJson, text |-> "<html>"],
     [kind |-> "response", status_code |-> 500, body |-> NoJson, text |-> "error text"],
     ConnectionError}

FilePaths == {"a.txt"}
\* os.path.join(recorder.record_root_dir, file_path)
SavePath(file_path) == "records/" \o file_path

\* self.url or self.cookies read before lazy_init assigned it
SessionUnset == iface.url = "unset" \/ iface.cookies = "unset"
Connected == ~SessionUnset

\* one operation op: the exception it leaves with ("" when it returns), the
\* endpoints it sent a request to, and what it returned
SessionOp(op, raised, requests, r) ==
    /\ session.n < MaxSessionOps
    /\ session' = [n |-> session.n + 1, op |-> op, raised |-> raised,
                   requests |-> requests, ret |-> r]

\* a variant of UseSelfhost that takes every configuration as self-hosted
UseSelfhost_always(config) == TRUE
\* line 92: config.use_selfhost_toolserver
UseSelfhost(config) == config.use_selfhost_toolserver

LazyInit(config, resp) ==
    /\ IF ~UseSelfhost(config)
       THEN /\ iface' = [iface EXCEPT !.config = config]
            /\ SessionOp("lazy_init", "NotImplementedError", <<>>, None)
       ELSE IF resp.kind = "error"
       THEN /\ iface' = [iface EXCEPT !.config = config, !.url = config.selfhost_toolserver_url]
            /\ SessionOp("lazy_init", "ConnectionError", <<"/get_cookie">>, None)
       ELSE /\ iface' = [config |-> config, url |-> config.selfhost_toolserver_url,
                         cookies |-> resp.cookies]
            /\ SessionOp("lazy_init", "", <<"/get_cookie">>, None)
    /\ UNCHANGED <<cache, handler_vars, discovery_vars, unwrap_vars, local_vars, summary_vars, saved, server_vars>>

\* a variant of Close that drops the cookie of the closed session
Close_clears(resp) ==
    /\ IF SessionUnset THEN SessionOp("close", "AttributeError", <<>>, None)
       ELSE IF resp.kind = "error"
       THEN SessionOp("close", "ConnectionError", <<"/close_session">>, None)
       ELSE SessionOp("close", "", <<"/close_session">>, None)
    /\ iface' = [iface EXCEPT !.cookies = "unset"]
    /\ UNCHANGED <<cache, handler_vars, discovery_vars, unwrap_vars, local_vars, summary_vars, saved, server_vars>>

Close(resp) ==
    /\ IF SessionUnset THEN SessionOp("close", "AttributeError", <<>>, None)
       ELSE IF resp.kind = "error"
       THEN SessionOp("close", "ConnectionError", <<"/close_session">>, None)
       ELSE SessionOp("close", "", <<"/close_session">>, None)
    /\ UNCHANGED <<cache, handler_vars, discovery_vars, unwrap_vars, local_vars, summary_vars, iface, saved, server_vars>>

\* the exception a file-transfer request ends with: the request itself,
\* then raise_for_status
TransferError(resp) ==
    IF resp.kind = "error" THEN "ConnectionError"
    ELSE IF resp.status_code >= 400 THEN "HTTPError"
    ELSE ""

\* upload_file and get_workspace_structure: request, raise_for_status, json
JsonCall(op, endpoint, resp) ==
    /\ IF SessionUnset THEN SessionOp(op, "AttributeError", <<>>, None)
       ELSE IF TransferError(resp) # "" THEN SessionOp(op, TransferError(resp), <<endpoint>>, None)
       ELSE IF resp.body = NoJson THEN SessionOp(op, "JSONDecodeError", <<endpoint>>, None)
       ELSE SessionOp(op, "", <<endpoint>>, resp.body)
    /\ UNCHANGED <<cache, handler_vars, discovery_vars, unwrap_vars, local_vars, summary_vars, iface, saved, server_vars>>

UploadFile(file_path, resp) == JsonCall("upload_file", "/upload_file", resp)

GetWorkspaceStructure(resp) ==
    JsonCall("get_workspace_structure", "/get_workspace_structure", resp)

\* download_file and download_all_files: request, raise_for_status, write
SaveCall(op, endpoint, save_path, resp) ==
    /\ IF SessionUnset
       THEN SessionOp(op, "AttributeError", <<>>, None) /\ UNCHANGED saved
       ELSE IF TransferError(resp) # ""
       THEN SessionOp(op, TransferError(resp), <<endpoint>>, None) /\ UNCHANGED saved
       ELSE SessionOp(op, "", <<endpoint>>, Str(save_path)) /\ saved' = saved \cup {save_path}
    /\ UNCHANGED <<cache, handler_vars, discovery_vars, unwrap_vars, local_vars, summary_vars, iface, server_vars>>

DownloadFile(file_path, resp) ==
    SaveCall("download_file", "/download_file", SavePath(file_path), resp)

DownloadAllFiles(resp) ==
    SaveCall("download_workspace", "/download_workspace", SavePath("workspace.zip"), resp)

\* one execute_command_client call on the connected interface, its request
\* answered inside the call
ExecuteCommand(name, args, resp) ==
    LET need == NeedRequest(redo_action,
                            query_tool_server_cache(cache, ExecuteToolUrl, PayloadOf(name, args)))
        r == execute_command_client(name, args, IF need THEN resp ELSE NoRequest,
                                    cache, redo_action)
    IN  /\ Connected
        \* without a request the outcome of the request plays no part
        /\ need \/ resp = ConnectionError
        /\ cache' = r.cache
        /\ SessionOp("execute_command_client", r.raised,
                     IF need THEN <<ExecuteToolUrl>> ELSE <<>>, r.out)
        /\ UNCHANGED <<handler_vars, discovery_vars, unwrap_vars, local_vars, summary_vars, iface, saved, server_vars>>

\* a tool-discovery call fn on the connected interface, with result r
Discover(fn, url, r) ==
    /\ Connected
    /\ cache' = r.cache
    /\ registry' = registry \cup r.registered
    /\ SessionOp(fn, r.raised, IF r.http THEN <<url>> ELSE <<>>, r.ret)
    /\ UNCHANGED <<handler_vars, disc, dfirst, disc_calls, unwrap_vars, local_vars, summary_vars, server_vars,
                   iface, saved>>

\* the answers to /execute_tool taken in the session: success, the status
\* that raises, and the failed request
SessionPostOutcomes ==
    {r \in PostOutcomes : r.status_code \in {200, 503}} \cup {ConnectionError}

SessionNext ==
    \/ \E config \in Configs, resp \in CookieOutcomes : LazyInit(config, resp)
    \/ \E resp \in TransferOutcomes : Close(resp)
    \/ \E p \in FilePaths, resp \in TransferOutcomes : UploadFile(p, resp)
    \/ \E p \in FilePaths, resp \in TransferOutcomes : DownloadFile(p, resp)
    \/ \E resp \in TransferOutcomes : GetWorkspaceStructure(resp)
    \/ \E resp \in TransferOutcomes : DownloadAllFiles(resp)
    \/ \E resp \in SessionPostOutcomes : ExecuteCommand(Str("toolA"), Args1, resp)
    \/ \E resp \in DiscoveryOutcomes(AvailableToolsUrl) :
           Discover("get_available_tools", AvailableToolsUrl,
                    get_available_tools(resp, cache))
    \/ \E resp \in DiscoveryOutcomes(RetrievingToolsUrl) :
           Discover("retrieve_rapidapi_tools", RetrievingToolsUrl,
                    retrieve_rapidapi_tools(Str("weather"), IntV(10), resp, cache))
    \/ \E resp \in DiscoveryOutcomes(JsonSchemaUrl) :
           Discover("get_json_schema_for_tools", JsonSchemaUrl,
                    get_json_schema_for_tools(List(<<Str("toolA")>>), resp, cache))

SessionSpec == Init /\ [][SessionNext]_vars

(***************************************************************************)
(* long_result_summary for WebEnv_search_and_browse: one parse_web_text    *)
(* sub-task per page in a thread pool, collected by the main thread.       *)
(***************************************************************************)
\* command['arguments']['goals_to_browse']
Goals == "goals"

\* a page text: its first 8096 characters and the rest
WebPages == {[head |-> h, tail |-> "rest"] : h \in {"a", "b"}}

\* ret['page'][:8096]
Head8096(page) == page.head

\* the results the search can hand over: up to MaxPages entries with a page
SearchResults ==
    UNION {[1..n -> {[page |-> p] : p \in WebPages}] : n \in 0..MaxPages}

\* how many hyperlinks the summary of a page text names
LinkCount(webpage) == IF webpage = "a" THEN 2 ELSE 5

\* function_manager('parse_web_text', webpage=..., prompt=...): a summary
\* that depends on the text and the prompt it was given
ParseWebText(webpage, prompt) ==
    [text |-> <<"summary", webpage, prompt>>,
     useful_hyperlinks |-> [k \in 1..LinkCount(webpage) |-> <<webpage, k>>]]

\* links[:3]
FirstThree(links) == SubSeq(links, 1, IF Len(links) < 3 THEN Len(links) ELSE 3)

NoValue == [text |-> <<>>, useful_hyperlinks |-> <<>>]

\* line 500: long_result_summary is entered with result; line 501 creates
\* the pool, which refuses max_workers = 0
Summarize(result) ==
    /\ sum_pc = "idle"
    /\ pages' = result
    /\ slots' = result
    /\ max_workers' = Len(result)
    /\ sum_pc' = IF Len(result) = 0 THEN "raised" ELSE "submit"
    /\ UNCHANGED <<futures, collected, order>>
    /\ UNCHANGED <<cache, handler_vars, discovery_vars, unwrap_vars, local_vars, session_vars, server_vars>>

\* lines 502-510: the next pool.submit of the list comprehension, its
\* arguments evaluated by the main thread
Submit ==
    /\ sum_pc = "submit"
    /\ LET k == Len(futures) + 1
       IN  /\ futures' = Append(futures, [state |-> "pending",
                                           webpage |-> Head8096(slots[k].page),
                                           prompt |-> Goals, value |-> NoValue])
           /\ sum_pc' = IF k = Len(slots) THEN "collect" ELSE "submit"
    /\ UNCHANGED <<max_workers, pages, slots, collected, order>>
    /\ UNCHANGED <<cache, handler_vars, discovery_vars, unwrap_vars, local_vars, session_vars, server_vars>>

Running == {i \in 1..Len(futures) : futures[i].state = "running"}

\* a free worker of the pool takes sub-task i
WorkerStart(i) ==
    /\ futures[i].state = "pending"
    /\ Cardinality(Running) < max_workers
    /\ futures' = [futures EXCEPT ![i].state = "running"]
    /\ UNCHANGED <<sum_pc, max_workers, pages, slots, collected, order>>
    /\ UNCHANGED <<cache, handler_vars, discovery_vars, unwrap_vars, local_vars, session_vars, server_vars>>

\* sub-task i returns: its future holds the summary
WorkerComplete(i) ==
    /\ futures[i].state = "running"
    /\ futures' = [futures EXCEPT ![i].state = "done",
                                   ![i].value = ParseWebText(futures[i].webpage,
                                                             futures[i].prompt)]
    /\ order' = Append(order, i)
    /\ UNCHANGED <<sum_pc, max_workers, pages, slots, collected>>
    /\ UNCHANGED <<cache, handler_vars, discovery_vars, unwrap_vars, local_vars, session_vars, server_vars>>

\* sub-task i raises: its future holds the exception
WorkerFail(i) ==
    /\ futures[i].state = "running"
    /\ futures' = [futures EXCEPT ![i].state = "failed"]
    /\ order' = Append(order, i)
    /\ UNCHANGED <<sum_pc, max_workers, pages, slots, collected>>
    /\ UNCHANGED <<cache, handler_vars, discovery_vars, unwrap_vars, local_vars, session_vars, server_vars>>

\* a variant of Collect that gives slot k the summary that completed k-th
Collect_bycompletion ==
    /\ sum_pc = "collect"
    /\ LET k == collected + 1
       IN  /\ futures[k].state = "done"
           /\ slots' = [slots EXCEPT ![k].page =
                           [futures[order[k]].value EXCEPT
                              !.useful_hyperlinks = FirstThree(@)]]
           /\ collected' = k
           /\ sum_pc' = IF k = Len(slots) THEN "done" ELSE "collect"
    /\ UNCHANGED <<max_workers, pages, futures, order>>
    /\ UNCHANGED <<cache, handler_vars, discovery_vars, unwrap_vars, local_vars, session_vars, server_vars>>

\* lines 511-513: one turn of the zip loop, thd.result() having returned
Collect ==
    /\ sum_pc = "collect"
    /\ LET k == collected + 1
       IN  /\ futures[k].state = "done"
           /\ slots' = [slots EXCEPT ![k].page =
                           [futures[k].value EXCEPT
                              !.useful_hyperlinks = FirstThree(@)]]
           /\ collected' = k
           /\ sum_pc' = IF k = Len(slots) THEN "done" ELSE "collect"
    /\ UNCHANGED <<max_workers, pages, futures, order>>
    /\ UNCHANGED <<cache, handler_vars, discovery_vars, unwrap_vars, local_vars, session_vars, server_vars>>

\* line 512: thd.result() raises the exception of the sub-task
CollectRaises ==
    /\ sum_pc = "collect"
    /\ futures[collected + 1].state = "failed"
    /\ sum_pc' = "unwind"
    /\ UNCHANGED <<max_workers, pages, slots, futures, collected, order>>
    /\ UNCHANGED <<cache, handler_vars, discovery_vars, unwrap_vars, local_vars, session_vars, server_vars>>

\* line 501: leaving the with block waits for every sub-task, then the
\* exception leaves long_result_summary
Unwind ==
    /\ sum_pc = "unwind"
    /\ \A i \in 1..Len(futures) : futures[i].state \in {"done", "failed"}
    /\ sum_pc' = "raised"
    /\ UNCHANGED <<max_workers, pages, slots, futures, collected, order>>
    /\ UNCHANGED <<cache, handler_vars, discovery_vars, unwrap_vars, local_vars, session_vars, server_vars>>

SummaryNext ==
    \/ \E result \in SearchResults : Summarize(result)
    \/ Submit
    \/ \E i \in 1..Len(futures) : WorkerStart(i)
    \/ \E i \in 1..Len(futures) : WorkerComplete(i)
    \/ \E i \in 1..Len(futures) : WorkerFail(i)
    \/ Collect
    \/ CollectRaises
    \/ Unwind

SummarySpec == Init /\ [][SummaryNext]_vars

(***************************************************************************)
(* XAgentServer.interact, lines 92-141: the session is opened, the tools   *)
(* are discovered, the files uploaded, the outer loop run, and the         *)
(* workspace downloaded and the session closed in the finally block.  Each *)
(* call returns (ok) or raises.                                            *)
(***************************************************************************)
Step(op, ok) == [op |-> op, ok |-> ok]

Took(op, ok) == \E i \in 1..Len(trace) : trace[i] = Step(op, ok)

Called(op) == Took(op, TRUE) \/ Took(op, FALSE)

\* one step of interact: it records its outcome and moves on
InteractStep(at, op, ok, next) ==
    /\ ipc = at
    /\ trace' = Append(trace, Step(op, ok))
    /\ ipc' = next
    /\ UNCHANGED <<cache, handler_vars, discovery_vars, unwrap_vars, local_vars,
                   session_vars, summary_vars, completion, retriever_vars>>

\* line 92: toolserver_interface.lazy_init(config=config), outside any try
InteractLazyInit(ok) ==
    /\ InteractStep("lazy_init", "lazy_init", ok, IF ok THEN "get_functions" ELSE "raised")
    /\ UNCHANGED to_upload

\* lines 96-97: function_handler.get_functions, which calls
\* get_available_tools, outside any try; line 110 reads file_list
GetFunctions(ok, file_list) ==
    /\ InteractStep("get_functions", "get_functions", ok, IF ok THEN "upload" ELSE "raised")
    /\ to_upload' = IF ok THEN file_list ELSE to_upload

\* lines 113-121: one upload_file, its exception caught and logged
Upload(ok) ==
    /\ to_upload > 0
    /\ InteractStep("upload", "upload_file", ok, "upload")
    /\ to_upload' = to_upload - 1

\* lines 131-136: the outer loop returns, or raises and is re-raised
OuterLoop(ok) ==
    /\ to_upload = 0
    /\ InteractStep("upload", "outer_loop", ok, "finally")
    /\ UNCHANGED to_upload

\* line 138, in the finally block: an exception of download_all_files
\* leaves the block
DownloadWorkspace(ok) ==
    /\ InteractStep("finally", "download_all_files", ok, IF ok THEN "close" ELSE "raised")
    /\ UNCHANGED to_upload

\* line 139, then the end of the finally block: the exception of the outer
\* loop goes on, or interact returns
CloseSession(ok) ==
    /\ InteractStep("close", "close", ok,
                    IF ok /\ Took("outer_loop", TRUE) THEN "returned" ELSE "raised")
    /\ UNCHANGED to_upload

InteractNext ==
    \/ \E ok \in BOOLEAN : InteractLazyInit(ok)
    \/ \E ok \in BOOLEAN, file_list \in 0..MaxUploads : GetFunctions(ok, file_list)
    \/ \E ok \in BOOLEAN : Upload(ok)
    \/ \E ok \in BOOLEAN : OuterLoop(ok)
    \/ \E ok \in BOOLEAN : DownloadWorkspace(ok)
    \/ \E ok \in BOOLEAN : CloseSession(ok)

\* interact is sequential code: a step it can take, it takes
InteractSpec == Init /\ [][InteractNext]_vars /\ WF_vars(InteractNext)

(***************************************************************************)
(* chatcompletion_request (ai_functions/request/openai.py)                 *)
(***************************************************************************)
\* the model names get_model_name resolves to
ModelNames == {"gpt-4", "gpt-4-32k", "gpt-3.5-turbo", "gpt-3.5-turbo-16k"}

\* CONFIG.api_keys, by the models it has keys for
ApiKeys == {{"gpt-4", "gpt-3.5-turbo"}, {"gpt-4", "gpt-3.5-turbo", "gpt-4-32k"}}

ContextMessage == "maximum context length exceeded"

\* what openai.ChatCompletion.create can produce: a response with its
\* finish_reason, an InvalidRequestError with its message, another error
CreateOutcome(kind, finish_reason, message) ==
    [kind |-> kind, finish_reason |-> finish_reason, message |-> message]

CreateOutcomes ==
    {CreateOutcome("response", f, "") : f \in {"stop", "length"}}
      \cup {CreateOutcome("InvalidRequestError", "", msg) :
               msg \in {"This model's maximum context length is 8192 tokens",
                        "Invalid value for 'temperature'"}}
      \cup {CreateOutcome("RateLimitError", "", "Rate limit reached")}

\* line 40: 'maximum context length' in e._message
AboutContextLength(message) ==
    message \in {"This model's maximum context length is 8192 tokens", ContextMessage}

\* a variant of FallbackModel that falls back from every model
FallbackModel_any(model_name, api_keys) ==
    IF model_name = "gpt-4" /\ "gpt-4-32k" \in api_keys THEN "gpt-4-32k"
    ELSE "gpt-3.5-turbo-16k"

\* lines 43-48: the model of the second request, "" when there is none
FallbackModel(model_name, api_keys) ==
    IF model_name = "gpt-4" /\ "gpt-4-32k" \in api_keys THEN "gpt-4-32k"
    ELSE IF model_name \in {"gpt-4", "gpt-3.5-turbo"} THEN "gpt-3.5-turbo-16k"
    ELSE ""

\* the result of a call: the models requested in order, the error the call
\* leaves with ("" when it returns) and the response returned
CompletionResult(requests, raised, response) ==
    [requests |-> requests, raised |-> raised, response |-> response]

NoResponse == CreateOutcome("none", "", "")

\* lines 29-56, for the resolved model_name, the configured keys and the
\* outcomes of the first and of the second create
chatcompletion_request(model_name, api_keys, first_create, second_create) ==
    LET e == IF first_create.kind = "response"
             \* line 38
             THEN CreateOutcome("InvalidRequestError", "", ContextMessage)
             ELSE first_create
    IN  IF first_create.kind = "response" /\ first_create.finish_reason # "length"
        THEN CompletionResult(<<model_name>>, "", first_create)
        ELSE IF e.kind # "InvalidRequestError"
        THEN CompletionResult(<<model_name>>, e.kind, NoResponse)
        ELSE IF ~AboutContextLength(e.message)
        THEN CompletionResult(<<model_name>>, e.kind, NoResponse)
        ELSE IF FallbackModel(model_name, api_keys) = ""
        THEN CompletionResult(<<model_name>>, e.kind, NoResponse)
        ELSE LET requests == <<model_name, FallbackModel(model_name, api_keys)>>
             IN  IF second_create.kind = "response"
                 THEN CompletionResult(requests, "", second_create)
                 ELSE CompletionResult(requests, second_create.kind, NoResponse)

ChatCompletion(model_name, api_keys, first_create, second_create) ==
    /\ completion.n < MaxCompletions
    /\ completion' = [n |-> completion.n + 1, model_name |-> model_name,
                      api_keys |-> api_keys, first |-> first_create, second |-> second_create]
                       @@ chatcompletion_request(model_name, api_keys, first_create, second_create)
    /\ UNCHANGED <<cache, handler_vars, discovery_vars, unwrap_vars, local_vars,
                   session_vars, summary_vars, interact_vars, retriever_vars>>

CompletionNext ==
    \E model_name \in ModelNames, api_keys \in ApiKeys,
       first_create \in CreateOutcomes, second_create \in CreateOutcomes :
        ChatCompletion(model_name, api_keys, first_create, second_create)

CompletionSpec == Init /\ [][CompletionNext]_vars

(***************************************************************************)
(* build_tool_embeddings (ToolServerNode/utils/retriever.py)               *)
(***************************************************************************)
\* a file of the retriever cache: absent, present but not loadable, or
\* present with its entries
AbsentFile == [exists |-> FALSE, readable |-> FALSE, content |-> <<>>]
UnreadableFile == [exists |-> TRUE, readable |-> FALSE, content |-> <<>>]
LoadableFile(entries) == [exists |-> TRUE, readable |-> TRUE, content |-> entries]

\* the id2tool files (tool names by id) and the embedding files (one row
\* per tool)
Id2ToolFiles ==
    {AbsentFile, UnreadableFile}
      \cup {LoadableFile([i \in 1..k |-> <<"tool", i>>]) : k \in 0..MaxTools}

EmbeddingFiles ==
    {AbsentFile, UnreadableFile}
      \cup {LoadableFile([i \in 1..k |-> <<"row", i>>]) : k \in 0..MaxTools}

\* a variant of Mismatch that accepts every pair
Mismatch_never(id2tool, doc_embedings) == FALSE

\* line 76: len(id2tool) != len(doc_embedings)
Mismatch(id2tool, doc_embedings) == Len(id2tool) # Len(doc_embedings)

BuildResult(raised, doc_embedings, id2tool) ==
    [raised |-> raised, doc_embedings |-> doc_embedings, id2tool |-> id2tool]

\* lines 72-91: tools_json is not read
build_tool_embeddings(tools_json, id2tool_f, embedding_f) ==
    IF id2tool_f.exists /\ embedding_f.exists
    THEN IF ~id2tool_f.readable THEN BuildResult("JSONDecodeError", <<>>, <<>>)
         ELSE IF ~embedding_f.readable THEN BuildResult("ValueError", <<>>, <<>>)
         ELSE IF Mismatch(id2tool_f.content, embedding_f.content)
         THEN BuildResult("", <<>>, <<>>)
         ELSE BuildResult("", embedding_f.content, id2tool_f.content)
    ELSE BuildResult("", <<>>, <<>>)

\* the files as the tool server finds them when it starts
WriteCacheFiles(id2tool_f, embedding_f) ==
    /\ built.n = 0
    /\ id2tool_file = AbsentFile /\ embedding_file = AbsentFile
    /\ <<id2tool_f, embedding_f>> # <<AbsentFile, AbsentFile>>
    /\ id2tool_file' = id2tool_f
    /\ embedding_file' = embedding_f
    /\ UNCHANGED built
    /\ UNCHANGED <<cache, handler_vars, discovery_vars, unwrap_vars, local_vars,
                   session_vars, summary_vars, interact_vars, completion>>

BuildToolEmbeddings(tools_json) ==
    /\ built.n < MaxBuilds
    /\ built' = [n |-> built.n + 1, tools_json |-> tools_json,
                 id2tool_file |-> id2tool_file, embedding_file |-> embedding_file]
                  @@ build_tool_embeddings(tools_json, id2tool_file, embedding_file)
    /\ UNCHANGED <<id2tool_file, embedding_file>>
    /\ UNCHANGED <<cache, handler_vars, discovery_vars, unwrap_vars, local_vars,
                   session_vars, summary_vars, interact_vars, completion>>

RetrieverNext ==
    \/ \E id2tool_f \in Id2ToolFiles, embedding_f \in EmbeddingFiles :
           WriteCacheFiles(id2tool_f, embedding_f)
    \/ \E k \in 0..MaxTools : BuildToolEmbeddings([i \in 1..k |-> <<"tool", i>>])

RetrieverSpec == Init /\ [][RetrieverNext]_vars





(***************************************************************************)
(* Properties.                                                             *)
(***************************************************************************)
\* the HTTP status the latest attempt got: from the cache or the response
\* when the call reached the classification, else from the response it
\* failed on (0: no response at all)
AttemptHttpStatus ==
    IF last.n = 0 THEN 0
    ELSE IF last.stored THEN last.response_status_code ELSE last.fresh_code

\* the table of section 4.3
StatusTable ==
    [c \in {200, 404, 422, 450, 500, 503} |->
        CASE c = 200 -> "TOOL_CALL_SUCCESS"
          [] c = 404 -> "HALLUCINATE_NAME"
          [] c = 422 -> "FORMAT_ERROR"
          [] c = 450 -> "TIMEOUT_ERROR"
          [] c = 500 -> "TOOL_CALL_FAILED"
          [] c = 503 -> "SERVER_ERROR"]

StatusOf(c) == IF c \in DOMAIN StatusTable THEN StatusTable[c] ELSE "OTHER_ERROR"

\* does a result carry a retry directive
HasRetryDirective(result) ==
    /\ HasKey(result, "detail")
    /\ HasKey(result.v["detail"], "type")
    /\ result.v["detail"].v["type"] = Str("retry")

\* C1: with redo_action off, a call of execute_command_client on a payload
\* for which an earlier call already produced an outcome issues no HTTP
\* request and produces the same output, the same HTTP status and the same
\* status code (and raises iff the earlier one did).
C1_CacheIdempotence ==
    (last.n > 0 /\ ~redo_action /\ last.prior # {}) =>
        \A f \in last.prior :
            /\ ~last.http
            /\ last.stored
            /\ last.out = f.out
            /\ last.response_status_code = f.response_status_code
            /\ last.status = f.status
            /\ last.raised = f.raised

C1_Witness ==
    /\ last.n > 0 /\ ~redo_action /\ last.prior # {}
    /\ last.raised = "" /\ last.status = "TOOL_CALL_SUCCESS"

\* C2 (as stated): one invocation makes at most 10 execute_command_client
\* attempts.
C2_Original == attempts <= 10

\* C2 (amended): one invocation makes at most 11 execute_command_client
\* attempts, the initial one and at most 10 redirected ones.
C2_AttemptBound == attempts <= 11 /\ retry_time <= 10 /\ (attempts > 0 => attempts <= retry_time + 1)

C2_Witness == attempts = 11 /\ AttemptHttpStatus = 450 /\ HasRetryDirective(command_result)

\* C3: when handle_tool_call returns after 10 retries and the last attempt
\* was classified TIMEOUT_ERROR, the tool output is the fixed message, not
\* the payload of that attempt, and the status is TIMEOUT_ERROR.
C3_ExhaustedMessage ==
    (pc = "done" /\ last.n > 0 /\ retry_time = 10 /\ last.status = "TIMEOUT_ERROR") =>
        /\ ret.using_tools.tool_output = TimeoutMessage
        /\ ret.using_tools.tool_output # last.out
        /\ node.tool_output = TimeoutMessage
        /\ ret.tool_output_status_code = "TIMEOUT_ERROR"

C3_Witness ==
    pc = "done" /\ last.n > 0 /\ retry_time = 10 /\ last.status = "TIMEOUT_ERROR"

\* C4: every call of execute_command_client that classifies an HTTP status
\* gives it the one status code of the table of section 4.3, and
\* OTHER_ERROR for a status outside the table.
C4_Classification ==
    (last.n > 0 /\ last.stored) =>
        /\ last.status = StatusOf(last.response_status_code)
        /\ last.status \in ToolCallStatusCode

C4_Witness ==
    last.n > 0 /\ last.stored /\ last.response_status_code = 418 /\ last.status = "OTHER_ERROR"

\* C5 (as stated): a remote tool call whose latest attempt got its HTTP
\* status classified raises only if that status is 503.
C5_OnlyServerErrorRaises ==
    (pc = "raised" /\ last.n > 0 /\ last.stored) => last.response_status_code = 503

C7_RetryTarget ==
    last.n > 1 =>
        /\ last.prev_status = "TIMEOUT_ERROR"
        /\ HasRetryDirective(last.prev_out)
        /\ last.command_name = last.prev_out.v["detail"].v["next_calling"]
        /\ last.arguments = last.prev_out.v["detail"].v["arguments"]

C7_Witness ==
    last.n > 1 /\ last.command_name # command_name /\ last.arguments # arguments

C9_Original ==
    (pc = "done" /\ command_name \in RemoteTools
        /\ ret.tool_output_status_code = "TIMEOUT_ERROR") =>
        ret.using_tools.tool_output = TimeoutMessage

\* C9 (amended): a remote command that returns TIMEOUT_ERROR returns the
\* fixed message if it made 10 retries; otherwise it returns the result of
\* its last attempt, which carries no retry directive.
C9_TimeoutOutput ==
    (pc = "done" /\ command_name \in RemoteTools
        /\ ret.tool_output_status_code = "TIMEOUT_ERROR") =>
        IF retry_time = 10
        THEN ret.using_tools.tool_output = TimeoutMessage
        ELSE /\ ret.using_tools.tool_output = last.out
             /\ ~HasRetryDirective(last.out)
             /\ last.response_status_code = 450

C9_Witness ==
    /\ pc = "done" /\ command_name \in RemoteTools
    /\ ret.tool_output_status_code = "TIMEOUT_ERROR"
    /\ retry_time < 10 /\ ret.using_tools.tool_output # TimeoutMessage

\* C10 (as stated): with redo_action on and a record cached for the payload,
\* the request is issued and the output and HTTP status returned and stored
\* are those of the fresh response.
C10_RedoUsesFreshResponse ==
    (last.n > 0 /\ redo_action /\ last.hit /\ last.stored) =>
        /\ last.http
        /\ last.out = last.fresh_out
        /\ last.response_status_code = last.fresh_code
        /\ query_tool_server_cache(cache, ExecuteToolUrl, last.payload).tool_output
              = last.fresh_out

\* C11 (as stated): every attempt on /execute_tool, whether it got an HTTP
\* status of any class or the request itself failed, leaves a record for
\* its payload in the call cache.
C11_EveryOutcomeStored ==
    (last.n > 0 /\ last.raised # "JSONDecodeError") =>
        /\ last.stored
        /\ query_tool_server_cache(cache, ExecuteToolUrl, last.payload) # NoRecord

\* C12: at most one request is in flight; a request is in flight only after
\* the cache lookup of its own attempt, and the lookup of an attempt is made
\* only when every earlier attempt of the invocation has ended.
C12_SequentialAttempts ==
    /\ in_flight \in {0, 1}
    /\ (in_flight = 1) <=> (pc = "request")
    /\ command_name \in RemoteTools =>
          /\ lookups \in {attempts, attempts + 1}
          /\ (lookups = attempts + 1) <=> (in_flight = 1)
          /\ http_requests <= lookups

C12_Witness == in_flight = 1 /\ attempts >= 1 /\ lookups = attempts + 1

\* C13: a discovery call that finds a record stored by an earlier call with
\* the same (url, payload) sends no request and returns what that earlier
\* call returned.
C13_DiscoveryReplay ==
    (disc.n > 0 /\ disc.prior # {}) =>
        /\ ~disc.http
        /\ disc.raised = ""
        /\ \A f \in disc.prior : disc.ret = f.ret

\* C14: unwrap_tool_response(wrap(x)) = x: for x in a simple envelope, and
\* for a list x wrapped as a composite envelope of its wrapped elements, at
\* every nesting depth.
C14_RoundTrip ==
    /\ obj = Simple(value) => unwrapped = value
    /\ obj = Wrap(value) => unwrapped = value

C14_Witness ==
    /\ obj = Wrap(value)
    /\ depth = MaxDepth
    /\ IsList(value) /\ Len(value.v) = MaxLen
    /\ IsList(value.v[1]) /\ value.v[1].v # <<>>
    /\ unwrapped = value

\* the malformed inputs C15 names: an object of another type, a binary
\* envelope without media_type, a composite envelope whose data is no list
C15_Malformed(o) ==
    \/ o.t = "object"
    \/ /\ IsDict(o)
       /\ HasKey(o, "type") /\ HasKey(o, "data")
       /\ \/ o.v["type"] = Str("binary") /\ ~HasKey(o, "media_type")
          \/ o.v["type"] = Str("composite") /\ ~IsList(o.v["data"])

\* C15: unwrap_tool_response never raises, and a malformed input is
\* normalized to None.
C15_NeverRaises ==
    /\ ~IsRaise(unwrapped)
    /\ C15_Malformed(obj) => unwrapped = None

\* the shape C16 calls wrapped
C16_Wrapped(o) ==
    /\ IsDict(o)
    /\ HasKey(o, "type") /\ HasKey(o, "data")
    /\ o.v["type"] \in {Str("simple"), Str("composite"), Str("binary")}

\* C16: a mapping, scalar, list or None is returned unchanged exactly when
\* it is not a mapping with a 'type' in {simple, composite, binary} and a
\* 'data' field; a list is returned as it is.
C16_PassThrough ==
    obj.t \in {"dict", "str", "int", "float", "bool", "list", "none"} =>
        ((unwrapped = obj) <=> ~C16_Wrapped(obj))

C16_Witness ==
    /\ IsList(obj) /\ obj.v # <<>>
    /\ C16_Wrapped(obj.v[1])
    /\ unwrapped = obj

\* C17: a composite envelope with a list of n elements gives a list of n
\* elements, the i-th being unwrap_tool_response of the i-th element.
C17_Elementwise ==
    (C16_Wrapped(obj) /\ obj.v["type"] = Str("composite") /\ IsList(obj.v["data"])) =>
        /\ IsList(unwrapped)
        /\ Len(unwrapped.v) = Len(obj.v["data"].v)
        /\ \A i \in DOMAIN unwrapped.v :
               unwrapped.v[i] = unwrap_tool_response(obj.v["data"].v[i])

\* C18: a binary envelope gives a descriptor of exactly media_type and
\* file_name, writes one file local_workspace/<file_name>, file_name ends
\* with '.png' when media_type is 'image/png', and the supplied name is
\* otherwise unchanged.
C18_BinaryDescriptor ==
    (C16_Wrapped(obj) /\ obj.v["type"] = Str("binary")) =>
        /\ IsDict(unwrapped)
        /\ DOMAIN unwrapped.v = {"media_type", "file_name"}
        /\ unwrapped.v["media_type"] = obj.v["media_type"]
        /\ Len(files) = 1
        /\ Str(files[1].file_name) = unwrapped.v["file_name"]
        /\ files[1].path = "local_workspace/" \o files[1].file_name
        /\ files[1].path \notin AbsoluteNames
        /\ files[1].decoded
        /\ obj.v["media_type"] = Str("image/png") => EndsWithPng(files[1].file_name)
        /\ HasKey(obj, "name") =>
               unwrapped.v["file_name"] =
                   IF obj.v["media_type"] = Str("image/png") /\ ~EndsWithPng(obj.v["name"].v)
                   THEN Str(AppendPng(obj.v["name"].v))
                   ELSE obj.v["name"]

\* C19: handle_tool_call with subtask_submit looks nothing up, sends no
\* request and returns: SUBMIT_AS_SUCCESS when arguments.result.success is
\* true and SUBMIT_AS_FAILED otherwise, plan_refine as the boolean of
\* need_for_plan_refine, and an acknowledgment naming submit_type.
C19_SubmitReturns ==
    (command_name = Str("subtask_submit") /\ pc # "idle") =>
        /\ lookups = 0 /\ http_requests = 0 /\ in_flight = 0
        /\ pc = "done" /\ ret.returned
        /\ ret.tool_output_status_code =
               IF arguments.v["result"].v["success"] = BoolV(TRUE)
               THEN "SUBMIT_AS_SUCCESS" ELSE "SUBMIT_AS_FAILED"
        /\ ret.plan_refine =
               (arguments.v["suggestions_for_latter_subtasks_plan"].v["need_for_plan_refine"]
                    = BoolV(TRUE))
        /\ \E st \in SubmitTypes :
               /\ arguments.v["submit_type"] = Str(st)
               /\ ret.result = FormatResult(command_name, Acknowledgment(st))

\* C20: handle_human_help looks the cache up under ('ask_human', arguments)
\* first; a hit gives the cached output without input(), a miss reads one
\* line and gives {output: text}; both store the exchange and report
\* TOOL_CALL_SUCCESS, and input() is never called twice for the same
\* arguments.
C20_HumanHelpReplay ==
    /\ human.n > 0 =>
          /\ human.hit <=> human.had_record
          /\ human.hit => ~human.prompted /\ human.command_result = human.before
          /\ ~human.hit => human.prompted /\ human.command_result = HumanOutput(human.text)
          /\ query_tool_server_cache(human.cache, HumanUrl, human.payload).tool_output
                 = human.command_result
          /\ human.tool_output_status_code = "TOOL_CALL_SUCCESS"
    /\ \A i, j \in DOMAIN prompts : prompts[i] = prompts[j] => i = j
    /\ (command_name = Str("ask_human_for_help") /\ pc = "done") =>
          /\ lookups = 1
          /\ ret.tool_output_status_code = "TOOL_CALL_SUCCESS"
          /\ ret.plan_refine = FALSE

C20_Witness ==
    /\ human.n > 1 /\ human.hit /\ ~human.prompted
    /\ Len(prompts) = 1 /\ prompts[1] = human.payload
    /\ pc = "done"

\* C21: an empty or absent command name gives the empty result with
\* TOOL_CALL_SUCCESS, and execute_command_client is never called: no cache
\* lookup, no request.
C21_EmptyCommand ==
    ((command_name = Str("") \/ command_name = None) /\ pc # "idle") =>
        /\ pc = "done"
        /\ lookups = 0 /\ attempts = 0 /\ http_requests = 0 /\ in_flight = 0
        /\ ret.returned
        /\ ret.tool_output_status_code = "TOOL_CALL_SUCCESS"
        /\ ret.using_tools.tool_output = Str("")
        /\ ret.result = FormatResult(command_name, Str(""))

C21_Witness ==
    /\ command_name = None /\ pc = "done"
    /\ cache # {}
    /\ ret.tool_output_status_code = "TOOL_CALL_SUCCESS"

\* C22: an invocation that returns has registered exactly one tool-call
\* record, made of the command, the arguments, the final output and the
\* final status it returns and writes to the node.
C22_OneToolCallRecord ==
    /\ Len(tool_calls) <= 1
    /\ pc = "done" =>
          /\ ret.returned
          /\ Len(tool_calls) = 1
          /\ tool_calls[1] = [tool_name |-> command_name, tool_input |-> arguments,
                              tool_output |-> command_result,
                              tool_status_code |-> tool_output_status_code]
          /\ ret.using_tools = tool_calls[1]
          /\ ret.tool_output_status_code = tool_calls[1].tool_status_code
          /\ ret.result = FormatResult(command_name, tool_calls[1].tool_output)
          /\ node.tool_output = tool_calls[1].tool_output
          /\ node.tool_status_code = tool_calls[1].tool_status_code

C22_Witness ==
    /\ pc = "done" /\ Len(tool_calls) = 1
    /\ tool_calls[1].tool_status_code = "TOOL_CALL_FAILED"
    /\ attempts > 1

\* C23: a failure of the /close_session request is not raised to the caller
\* of close().
C23_CloseNeverRaises ==
    (session.n > 0 /\ session.op = "close" /\ session.requests # <<>>) =>
        session.raised = ""

\* C24: lazy_init on a configuration that is not self-hosted raises before
\* any request and sets no cookie; on a self-hosted one it sends exactly one
\* /get_cookie request and stores the cookie it returns.
C24_LazyInit ==
    [][\A config \in Configs, resp \in CookieOutcomes :
          LazyInit(config, resp) =>
              IF ~config.use_selfhost_toolserver
              THEN /\ session'.raised # ""
                   /\ session'.requests = <<>>
                   /\ iface'.cookies = iface.cookies
                   /\ iface'.url = iface.url
              ELSE /\ session'.requests = <<"/get_cookie">>
                   /\ resp.kind = "response" =>
                          /\ session'.raised = ""
                          /\ iface'.cookies = resp.cookies
                          /\ iface'.url = config.selfhost_toolserver_url]_vars

C24_Witness ==
    /\ session.n > 1 /\ session.op = "lazy_init"
    /\ session.raised = "NotImplementedError"
    /\ iface.cookies = "c1"

\* C26: only lazy_init changes the session cookie or the base URL.
C26_CookieFrame ==
    [][(iface'.cookies # iface.cookies \/ iface'.url # iface.url) =>
           (session'.n = session.n + 1 /\ session'.op = "lazy_init")]_vars

C26_Witness ==
    /\ session.n = MaxSessionOps /\ session.op = "execute_command_client"
    /\ iface.cookies = "c2"
    /\ cache # {}

\* C25: for WebEnv_search_and_browse with n >= 1 pages the pool has n
\* workers and gets exactly one sub-task per page, made from that page;
\* whatever the completion order, a returned result holds in slot i the
\* summary of page i with useful_hyperlinks cut to its first 3 entries, and
\* a slot changes only when the main thread stores its own future's summary
C25_Summary(i) ==
    [ParseWebText(Head8096(pages[i].page), Goals) EXCEPT
        !.useful_hyperlinks = FirstThree(@)]

C25_State ==
    (sum_pc # "idle" /\ Len(pages) >= 1) =>
        /\ max_workers = Len(pages)
        /\ Cardinality(Running) <= max_workers
        /\ Len(futures) <= Len(pages)
        /\ sum_pc # "submit" => Len(futures) = Len(pages)
        /\ \A i \in 1..Len(futures) :
              /\ futures[i].webpage = Head8096(pages[i].page)
              /\ futures[i].prompt = Goals
        /\ Len(slots) = Len(pages)
        /\ \A i \in 1..Len(slots) :
              slots[i] = IF i <= collected THEN [page |-> C25_Summary(i)] ELSE pages[i]
        /\ sum_pc = "done" =>
              /\ collected = Len(pages)
              /\ \A i \in 1..Len(slots) : Len(slots[i].page.useful_hyperlinks) <= 3

C25_Step ==
    \A i \in 1..Len(slots) :
        (Len(slots') = Len(slots) /\ slots'[i] # slots[i]) =>
            /\ futures' = futures
            /\ collected = i - 1 /\ collected' = i
            /\ \A j \in 1..Len(slots) : j # i => slots'[j] = slots[j]

C25_SearchAndBrowse == [](C25_State) /\ [][C25_Step]_vars

C25_Witness ==
    /\ sum_pc = "done"
    /\ Len(pages) = MaxPages
    /\ order[1] = MaxPages /\ order[MaxPages] = 1
    /\ pages[1].page.head = "a" /\ pages[MaxPages].page.head = "b"
    /\ Len(slots[MaxPages].page.useful_hyperlinks) = 3

\* C27 (as stated): when a redirected attempt of handle_tool_call sent its
\* request and the tool server answered it with 200, the call is classified
\* TOOL_CALL_SUCCESS with the result of that response, and handle_tool_call
\* returns that status and result; also when the cache holds a record for
\* the pair the attempt was redirected to.
C27_RetrySucceeds ==
    (command_name \in RemoteTools /\ pc \in {"loop", "done"} /\ attempts > 1
       /\ last.http /\ last.fresh_code = 200) =>
        /\ last.status = "TOOL_CALL_SUCCESS"
        /\ last.out = last.fresh_out
        /\ pc = "done" =>
              /\ ret.tool_output_status_code = "TOOL_CALL_SUCCESS"
              /\ ret.using_tools.tool_output = last.fresh_out

\* C28: the output of a call is normalized exactly once: it is
\* unwrap_tool_response of the body when the body was just received with
\* status 200 or 450 and no record was cached, the raw text of the response
\* for any other status, and the cached output exactly as stored (also when
\* it is envelope-shaped) when a record was cached; that output is what the
\* call stores.
C28_Replayed ==
    (last.n > 0 /\ last.stored) =>
        /\ last.hit => last.out = last.cached.tool_output
        /\ query_tool_server_cache(cache, ExecuteToolUrl, last.payload).tool_output
              = last.out

C28_Received ==
    \A resp \in PostOutcomes :
        (Receive(resp) /\ last'.stored /\ ~last'.hit) =>
            last'.out = IF resp.status_code \in {200, 450}
                        THEN unwrap_tool_response(resp.body)
                        ELSE Str(resp.text)

C28_NormalizedOnce == [](C28_Replayed) /\ [][C28_Received]_vars

C28_Witness ==
    /\ last.n > 0 /\ last.hit /\ last.stored
    /\ last.response_status_code = 200
    /\ last.out = Simple(Str("ok"))
    /\ pc = "done"

\* C29: an invocation of handle_tool_call for a command other than
\* ask_human_for_help ends (it returns or raises) provided every request
\* sent returns; a remote command makes at most MAX_RETRY + 1 attempts, also
\* when every response is a timeout with a retry directive.
C29_Running == pc \in {"request", "loop"}

C29_Ended == pc \in {"done", "raised"}

C29_Terminates ==
    /\ [](attempts <= MAX_RETRY + 1 /\ retry_time <= MAX_RETRY)
    /\ C29_Running ~> C29_Ended

C29_Witness ==
    /\ pc = "done"
    /\ attempts = MAX_RETRY + 1
    /\ http_requests = MAX_RETRY + 1
    /\ ret.tool_output_status_code = "TIMEOUT_ERROR"

\* C30: the plan_refine that handle_tool_call returns is true only for a
\* subtask_submit whose need_for_plan_refine is true, and false for every
\* other command whatever its output and status.
C30_PlanRefine ==
    (pc = "done" /\ ret.returned) =>
        (ret.plan_refine <=>
            /\ command_name = Str("subtask_submit")
            /\ Truthy(Subscript(Subscript(arguments, "suggestions_for_latter_subtasks_plan"),
                                 "need_for_plan_refine")))

C30_Witness ==
    /\ pc = "done" /\ ret.returned
    /\ ret.plan_refine
    /\ ret.tool_output_status_code = "SUBMIT_AS_FAILED"
    /\ invocations = MaxInvocations

\* C31 (as stated): the summary of a WebEnv_search_and_browse result ends
\* with an error only when a sub-task raised; for a result without pages it
\* ends without error and the result is the one it was given.
C31_SummaryCompletes ==
    /\ sum_pc = "raised" => \E i \in 1..Len(futures) : futures[i].state = "failed"
    /\ (sum_pc # "idle" /\ Len(pages) = 0) => (sum_pc = "done" /\ slots = pages)

\* C32 (as stated): a session that a successful lazy_init opened is
\* eventually closed, whatever fails afterwards, and close is called only
\* after download_all_files.
C32_Closed == Called("close")

C32_SessionClosed ==
    /\ [](Called("close") => Called("download_all_files"))
    /\ Took("lazy_init", TRUE) ~> C32_Closed

\* C33: a chatcompletion_request call sends at most two requests, the first
\* for the model asked; a second one only when the first failed with a
\* context-length error or finished with reason 'length' and the model is
\* gpt-4 (then for gpt-4-32k when it is configured, else gpt-3.5-turbo-16k)
\* or gpt-3.5-turbo (then for gpt-3.5-turbo-16k); in every other failure the
\* error of the first request leaves the call, with no second request.
C33_ContextFailure ==
    \/ completion.first.kind = "response" /\ completion.first.finish_reason = "length"
    \/ /\ completion.first.kind = "InvalidRequestError"
       /\ AboutContextLength(completion.first.message)

C33_AtMostTwoRequests ==
    completion.n > 0 =>
        /\ Len(completion.requests) \in {1, 2}
        /\ completion.requests[1] = completion.model_name
        /\ Len(completion.requests) = 2 <=>
              /\ C33_ContextFailure
              /\ completion.model_name \in {"gpt-4", "gpt-3.5-turbo"}
        /\ Len(completion.requests) = 2 =>
              completion.requests[2] =
                  IF completion.model_name = "gpt-4" /\ "gpt-4-32k" \in completion.api_keys
                  THEN "gpt-4-32k" ELSE "gpt-3.5-turbo-16k"
        /\ (Len(completion.requests) = 1 /\ completion.first.kind # "response") =>
              completion.raised = completion.first.kind
        /\ (Len(completion.requests) = 1 /\ completion.first.kind = "response") =>
              IF completion.first.finish_reason = "length"
              THEN completion.raised = "InvalidRequestError"
              ELSE completion.raised = "" /\ completion.response = completion.first

C33_Witness ==
    /\ completion.n = MaxCompletions
    /\ completion.model_name = "gpt-4"
    /\ completion.first.finish_reason = "length"
    /\ completion.requests = <<"gpt-4", "gpt-4-32k">>
    /\ completion.raised = ""

\* C34: with cache files that are absent or loadable, build_tool_embeddings
\* returns an embedding list and an id-to-tool map of equal length: the
\* loaded pair when both files exist and their lengths match, the empty
\* pair when a file is missing or the lengths differ; the files are left as
\* they were, whatever tools_json is.
C34_Loadable(f) == f.exists => f.readable

====
